---- MODULE Spec2Model ----
(***************************************************************************)
(* State-machine model of the concurrent cores of blackroad-os-agents:     *)
(*   - the Command / Plan Executor of the agent daemon                     *)
(*       (src/executor/core/executor.py), specification SpecExec;          *)
(*   - the Job Queue Consumer (src/worker/runner.py) running as several    *)
(*       consumers of one Redis consumer group, specification SpecWorker   *)
(*       and, with fairness, FairSpecWorker;                               *)
(*   - the Runtime Dispatcher (src/worker/executor.py), specification      *)
(*       SpecDispatch;                                                     *)
(*   - the Connection Manager of the agent daemon                          *)
(*       (src/executor/core/connection.py), specification SpecConn and,    *)
(*       with fairness, FairSpecConn.                                      *)
(* The components share no state; each specification leaves the other      *)
(* components' variables unchanged.                                        *)
(***************************************************************************)
EXTENDS Integers, Sequences, FiniteSets, TLC

(***************************************************************************)
(* Bounds of the model.                                                    *)
(***************************************************************************)
\* longest plan (number of commands) drawn as an input of execute_plan
MaxCmds == 2
\* largest timeout_seconds (in clock ticks) a command of a plan carries
MaxTimeout == 1
\* output lines of one command that are tracked
MaxLines == 1

\* messages on the job stream
NMsgs == 2

\* longest tracked run of one handler of the Runtime Dispatcher, in clock ticks
MaxExecMs == 1

\* messages naming the same job that one worker processes one after the other
MaxAttempts == 2

\* longest Command.dir, in characters
MaxDirLen == 3

\* workers started against the same stream and group
MaxStarters == 2

\* WorkerConfig of the modelled deployment (runner.py:29, :32): batch_size,
\* and claim_min_idle_ms in clock ticks
batch_size == 1
claim_min_idle_ms == 1

\* connections told apart: the handle of a new connection differs from the
\* handles of the MaxConns - 1 connections before it
MaxConns == 2
\* inbound messages counted on one connection
MaxInbox == 2

\* AgentConfig of the modelled deployment (config.py:21, :22), in clock ticks
reconnect_delay == 2
heartbeat_interval == 2

\* the wall clock of one command saturates one tick past the largest timeout
MaxTime == MaxTimeout + 1

Min(a, b) == IF a < b THEN a ELSE b

VARIABLES
    \* ---- Command / Plan Executor -------------------------------------
    plan,              \* plan.commands of the running execute_plan call
    workspace_status,  \* Workspace.status of the plan's workspace ("absent": not created)
    pc,                \* position of execute_plan
    i,                 \* loop index of execute_plan (0-based, as enumerate)
    results,           \* the results list of execute_plan
    success,           \* the success flag of execute_plan
    startLog,          \* command indices in the order their process was spawned
    proc,              \* the child process of the current command
    elapsed,           \* ticks since execute_command took start_time
    waited,            \* ticks since wait_for(proc.wait(), timeout) began
    lines,             \* output lines of the current command handed to output_callback
    callbackLog,       \* command_index of each result handed to result_callback, in call order
    \* ---- Job Queue Consumer ------------------------------------------
    msgJob,            \* the job_id field of each stream message
    last_delivered,    \* the group's last-delivered id: messages 1..last_delivered were read with ">"
    pel,               \* the group's pending-entries list: owner and idle time per message
    wpc,               \* position of each consumer's Worker
    batch,             \* messages of the current xreadgroup reply a consumer has still to process
    jobs,              \* rows of table jobs: status, error, output
    job_events,        \* rows of table job_events, per job, in insertion order
    roadchain,         \* rows of table roadchain, per job, in insertion order
    acks,              \* number of XACK calls made for each message
    dispatches,        \* number of executor.execute calls made for each message
    executed,          \* what executor.execute did for each message ("none": not returned)
    effects,           \* per message: the store and stream operations its processing performed
    \* ---- Runtime Dispatcher -----------------------------------------
    manifest,          \* the manifest argument of execute: runtime_type and the shape of its settings
    input_ok,          \* whether the input argument has the shape the handlers assume
    dpc,               \* position of AgentExecutor.execute
    exec_ms,           \* time since execute took start_time
    thrown,            \* the exception raised inside the try block of execute ("none": none)
    exec_result,       \* the ExecutionResult execute returned
    \* ---- Connection Manager -----------------------------------------
    running,           \* ControllerConnection._running
    ws,                \* ControllerConnection._ws: 0 for None, else the connection's number
    chan,              \* the channel behind the handle: "none", "open" or "closed"
    cpc,               \* position of connect()
    conn_id,           \* number of the connection attempted last
    slept,             \* ticks of the current asyncio.sleep(reconnect_delay)
    hb,                \* the heartbeat task: "none", "waiting" or "cancel_requested"
    hbAlive,           \* heartbeat tasks created and not finished
    hbTimer,           \* ticks of the heartbeat task's current sleep
    disconnected,      \* disconnect() has been called
    discAt,            \* position of connect() when disconnect() was called
    send_result,       \* outcome of the last send(): "none", "True", "False" or "raised"
    lastMsg,           \* kind of the inbound message handled last on this connection
    handledHere,       \* inbound messages handled on this connection
    dropped,           \* of those, the ones logged and dropped as invalid, unknown or failing
    \* ---- Job Queue Consumer: one message, store calls that can fail ---
    job_row,           \* the jobs row the message names: status and error
    row_events,        \* the job_events rows of that job, in insertion order
    audit_rows,        \* number of roadchain rows of that job
    ppc,               \* position of _process_message: the store or stream call it makes next
    attempt,           \* number of the message being processed
    exec_outcome,      \* what executor.execute did for this message ("none": not called)
    caught,            \* text of the exception the except clause caught ("none": none)
    failedAt,          \* the call of this message that failed first ("none": none)
    propagating,       \* an exception is on its way out of _process_message
    acked,             \* the message was acknowledged
    raised_out,        \* _process_message ended by raising to _process_batch
    \* ---- Agent Daemon: the execute_task handler --------------------
    task_payload,      \* payload of the execute_task message being handled
    hpc,               \* position of _handle_execute_task: "idle", "executing", "returned"
    task_outcome,      \* how the handling went: "none", "skipped", "crashed", "invalid", "returned", "raised"
    task_results,      \* the results execute_plan returned
    task_success,      \* the success flag execute_plan returned
    task_sent,         \* the task_complete payloads handed to connection.send for this message
    current_task_id,   \* AgentDaemon._current_task_id
    \* ---- Command Executor: workspaces and working directories ------
    workspaces,        \* CommandExecutor._workspaces: name -> Workspace, or NoWorkspace
    docker_enabled,    \* AgentConfig.docker_enabled
    ws_made,           \* number of Workspace objects constructed so far
    ws_init_calls,     \* name -> number of calls of _init_docker_workspace / _init_venv_workspace
    ws_asked,          \* the arguments of the last get_or_create_workspace call
    ws_returned,       \* what that call returned
    ws_spawn,          \* the last subprocess execute_command created
    \* ---- Job Queue Consumer: worker startup ------------------------
    key_kind,          \* what the key queue_name holds in Redis: "absent", "stream", "string"
    group_count,       \* group name -> number of consumer groups of that name on the stream
    spc,               \* position of each worker's start(): "idle", "creating", "replied", "looping", "raised"
    xreply,            \* the outcome of each worker's xgroup_create call
    start_error,       \* the exception that left each worker's start(), or NoError
    \* ---- Policy Steward agent --------------------------------------
    change_doc,        \* the change document handed to the Policy Steward
    steward_calls,     \* which of review_change and flag_risks have been called on it
    review_out,        \* what review_change returned
    risks_out,         \* what flag_risks returned
    \* ---- Agent Daemon on its channel: connection, heartbeat and task handler ---
    wire,              \* the channel of the current connection: "none", "open" or "closed"
    sock,              \* whether ControllerConnection._ws is set
    loop_pc,           \* position of connect(): "connecting", "registering", "receiving", "cancelling", "sleeping"
    beat,              \* the heartbeat task: "none", "waiting" or "cancel_requested"
    task_pc,           \* position of _handle_execute_task: "idle", "running", "completing"
    conn_task,         \* ControllerConnection._current_task_id
    plan_size,         \* number of commands of the plan being executed
    cmd_idx,           \* index of the command being executed
    cmd_lines,         \* lines the command being executed has written so far
    active_plans,      \* execute_plan invocations that have started and not ended
    task_log,          \* messages sent for the current task, in order: type and command index
    first_out,         \* type of the first message sent on the current channel ("none": none yet)
    last_in,           \* type of the inbound message dispatched last
    pongs,             \* what _handle_message itself sent for that message
    beat_report,       \* the last heartbeat: the current_task_id it carried and where the task handler was
    \* ---- Worker loop: start() and stop() ---------------------------
    w_running,         \* Worker._running
    w_pc,              \* position of start(): "check", "claiming", "reading", "processing", "raised", "sleeping", "returned"
    iterations,        \* calls of _process_batch so far
    scan_failed,       \* whether the reclaim scan of the current iteration raised
    read_done,         \* whether the current iteration has called xreadgroup
    batch_left,        \* messages of the current reply not yet processed
    escaped,           \* exceptions that escaped _process_batch so far
    errors_logged,     \* "Error processing batch" lines logged so far
    stop_called,       \* whether stop() has been called
    stopped_at         \* the number of iterations when stop() was called

execVars == <<plan, workspace_status, pc, i, results, success, startLog,
              proc, elapsed, waited, lines, callbackLog>>

workerVars == <<msgJob, last_delivered, pel, wpc, batch, jobs, job_events,
                roadchain, acks, dispatches, executed, effects>>

dispatchVars == <<manifest, input_ok, dpc, exec_ms, thrown, exec_result>>

connVars == <<running, ws, chan, cpc, conn_id, slept, hb, hbAlive, hbTimer,
              disconnected, discAt, send_result, lastMsg, handledHere, dropped>>

storeVars == <<job_row, row_events, audit_rows, ppc, attempt, exec_outcome, caught,
               failedAt, propagating, acked, raised_out>>

daemonVars == <<task_payload, hpc, task_outcome, task_results, task_success,
                task_sent, current_task_id>>

workspacesVars == <<workspaces, docker_enabled, ws_made, ws_init_calls,
                    ws_asked, ws_returned, ws_spawn>>

startupVars == <<key_kind, group_count, spc, xreply, start_error>>

stewardVars == <<change_doc, steward_calls, review_out, risks_out>>

sessionVars == <<wire, sock, loop_pc, beat, task_pc, conn_task, plan_size,
                 cmd_idx, cmd_lines, active_plans, task_log, first_out,
                 last_in, pongs, beat_report>>

loopVars == <<w_running, w_pc, iterations, scan_failed, read_done, batch_left,
              escaped, errors_logged, stop_called, stopped_at>>

vars == <<execVars, workerVars, dispatchVars, connVars, storeVars, daemonVars, workspacesVars, startupVars, stewardVars, sessionVars, loopVars>>

\* what the actions of one component leave alone
outsideExec == <<workerVars, dispatchVars, connVars, storeVars, daemonVars, workspacesVars, startupVars, stewardVars, sessionVars, loopVars>>
outsideWorker == <<execVars, dispatchVars, connVars, storeVars, daemonVars, workspacesVars, startupVars, stewardVars, sessionVars, loopVars>>
outsideDispatch == <<execVars, workerVars, connVars, storeVars, daemonVars, workspacesVars, startupVars, stewardVars, sessionVars, loopVars>>
outsideConn == <<execVars, workerVars, dispatchVars, storeVars, daemonVars, workspacesVars, startupVars, stewardVars, sessionVars, loopVars>>
outsideStore == <<execVars, workerVars, dispatchVars, connVars, daemonVars, workspacesVars, startupVars, stewardVars, sessionVars, loopVars>>
outsideDaemon == <<execVars, workerVars, dispatchVars, connVars, storeVars, workspacesVars, startupVars, stewardVars, sessionVars, loopVars>>
outsideWorkspaces == <<execVars, workerVars, dispatchVars, connVars, storeVars, daemonVars, startupVars, stewardVars, sessionVars, loopVars>>
outsideStartup == <<execVars, workerVars, dispatchVars, connVars, storeVars, daemonVars, workspacesVars, stewardVars, sessionVars, loopVars>>
outsideSteward == <<execVars, workerVars, dispatchVars, connVars, storeVars, daemonVars, workspacesVars, startupVars, sessionVars, loopVars>>
outsideSession == <<execVars, workerVars, dispatchVars, connVars, storeVars, daemonVars, workspacesVars, startupVars, stewardVars, loopVars>>
outsideLoop == <<execVars, workerVars, dispatchVars, connVars, storeVars, daemonVars, workspacesVars, startupVars, stewardVars, sessionVars>>

(***************************************************************************)
(* Command / Plan Executor                                                 *)
(***************************************************************************)
\* exit statuses a child can end with by itself: 0, a failure, or death by
\* signal 1 (asyncio reports a signal death as the negated signal number)
ReturnCodes == {0, 1, -1}

\* models.Command, restricted to the fields execute_plan and the backends read
Commands == [timeout_seconds : 1..MaxTimeout, continue_on_error : BOOLEAN]

RECURSIVE SeqsUpTo(_, _)
SeqsUpTo(S, n) ==
    IF n = 0 THEN {<<>>}
    ELSE LET shorter == SeqsUpTo(S, n - 1)
         IN  shorter \cup {Append(s, x) : s \in {t \in shorter : Len(t) = n - 1}, x \in S}

Plans == SeqsUpTo(Commands, MaxCmds)

NoProc == [state |-> "none", pipes |-> FALSE, returncode |-> 0]

\* the command the loop of execute_plan is at
command == plan[i + 1]

\* executor.py:262-266: the backend's result when the process exited by itself
ExitedResult(p) ==
    [exit_code |-> IF p.returncode = 0 THEN 0 ELSE p.returncode, timed_out |-> FALSE]

\* executor.py:254-260: the backend's result when wait_for timed out
TimeoutResult == [exit_code |-> -1, timed_out |-> TRUE]

\* a CommandResult numbered from one
CommandResultOneBased(index, r, duration) ==
    [command_index |-> index + 1, exit_code |-> r.exit_code,
     timed_out |-> r.timed_out, duration |-> duration]

\* executor.py:205-214: the CommandResult execute_command builds
CommandResult(index, r, duration) ==
    [command_index |-> index, exit_code |-> r.exit_code,
     timed_out |-> r.timed_out, duration |-> duration]

\* a halt test that takes only positive exit codes for failures
ShouldHaltOnPositive(result, cmd) ==
    result.exit_code > 0 /\ ~cmd.continue_on_error

\* a halt test that ignores the command's error policy
ShouldHaltIgnoringPolicy(result, cmd) ==
    result.exit_code # 0

\* executor.py:130-131: the plan halts after this result
ShouldHalt(result, cmd) ==
    result.exit_code # 0 /\ ~cmd.continue_on_error

\* the restore written after the try block instead of in a finally
StatusOnExitNoFinally(raised) == IF raised THEN "busy" ELSE "ready"

\* executor.py:150-151: the status the finally block leaves the workspace in
StatusOnExit(raised) == "ready"

\* the executor before the first execute_plan call, a plan at hand
ExecStart ==
    /\ plan \in Plans
    /\ workspace_status = "absent"
    /\ pc = "idle"
    /\ i = 0
    /\ results = <<>>
    /\ success = TRUE
    /\ startLog = <<>>
    /\ proc = NoProc
    /\ elapsed = 0
    /\ waited = 0
    /\ lines = 0
    /\ callbackLog = <<>>

\* execute_plan is entered: the workspace is fetched or created and marked
\* busy; an empty plan runs no command and returns at once.
Call ==
    /\ UNCHANGED outsideExec
    /\ pc \in {"idle", "returned", "raised"}
    /\ results' = <<>>
    /\ success' = TRUE
    /\ startLog' = <<>>
    /\ i' = 0
    /\ proc' = NoProc
    /\ elapsed' = 0
    /\ waited' = 0
    /\ lines' = 0
    /\ callbackLog' = <<>>
    /\ IF plan = <<>>
       THEN /\ pc' = "returned"
            /\ workspace_status' = StatusOnExit(FALSE)
       ELSE /\ pc' = "loop"
            /\ workspace_status' = "busy"
    /\ UNCHANGED plan

\* execute_plan raises before the try block: plan.workspace_type is no
\* WorkspaceType, or the workspace directory cannot be made.
CallRaises ==
    /\ UNCHANGED outsideExec
    /\ pc \in {"idle", "returned", "raised"}
    /\ results' = <<>>
    /\ success' = TRUE
    /\ startLog' = <<>>
    /\ i' = 0
    /\ proc' = NoProc
    /\ elapsed' = 0
    /\ waited' = 0
    /\ lines' = 0
    /\ callbackLog' = <<>>
    /\ pc' = "raised"
    /\ UNCHANGED <<plan, workspace_status>>

\* execute_command spawns the child of command i and starts reading its pipes
StartCommand ==
    /\ UNCHANGED outsideExec
    /\ pc = "loop"
    /\ startLog' = Append(startLog, i)
    /\ proc' = [state |-> "running", pipes |-> TRUE, returncode |-> 0]
    /\ elapsed' = 0
    /\ waited' = 0
    /\ lines' = 0
    /\ pc' = "reading"
    /\ UNCHANGED <<plan, workspace_status, i, results, success, callbackLog>>

\* execute_command raises before a child exists (the spawn fails)
StartCommandRaises ==
    /\ UNCHANGED outsideExec
    /\ pc = "loop"
    /\ pc' = "raised"
    /\ workspace_status' = StatusOnExit(TRUE)
    /\ UNCHANGED <<plan, i, results, success, startLog, proc, elapsed, waited, lines,
                   callbackLog>>

\* read_stream gets a line and awaits output_callback, which may raise; the
\* exception leaves gather and execute_plan, the child is not killed
OutputLine ==
    /\ UNCHANGED outsideExec
    /\ pc = "reading"
    /\ proc.pipes
    /\ lines < MaxLines
    /\ lines' = lines + 1
    /\ \E raises \in BOOLEAN :
        IF raises
        THEN /\ pc' = "raised"
             /\ workspace_status' = StatusOnExit(TRUE)
        ELSE UNCHANGED <<pc, workspace_status>>
    /\ UNCHANGED <<plan, i, results, success, startLog, proc, elapsed, waited,
                   callbackLog>>

\* the child closes its stdout and stderr and keeps running
ProcClosePipes ==
    /\ UNCHANGED outsideExec
    /\ pc \in {"reading", "waiting"}
    /\ proc.state = "running"
    /\ proc.pipes
    /\ proc' = [proc EXCEPT !.pipes = FALSE]
    /\ UNCHANGED <<plan, workspace_status, pc, i, results, success, startLog,
                   elapsed, waited, lines, callbackLog>>

\* the child ends by itself, which closes its pipes
ProcExit ==
    /\ UNCHANGED outsideExec
    /\ pc \in {"reading", "waiting"}
    /\ proc.state = "running"
    /\ \E code \in ReturnCodes :
        proc' = [state |-> "exited", pipes |-> FALSE, returncode |-> code]
    /\ UNCHANGED <<plan, workspace_status, pc, i, results, success, startLog,
                   elapsed, waited, lines, callbackLog>>

\* one unit of wall-clock time passes while a command is executing; the
\* timer of wait_for fires no later than its deadline
Tick ==
    /\ UNCHANGED outsideExec
    /\ pc \in {"reading", "waiting"}
    /\ (pc = "waiting" /\ proc.state = "running") => waited < command.timeout_seconds
    /\ elapsed < MaxTime
    /\ elapsed' = elapsed + 1
    /\ waited' = IF pc = "waiting" THEN Min(waited + 1, MaxTimeout) ELSE waited
    /\ UNCHANGED <<plan, workspace_status, pc, i, results, success, startLog,
                   proc, lines, callbackLog>>

\* asyncio.gather over both read_stream tasks returns once both pipes hit
\* EOF; only then does the backend start wait_for(proc.wait(), timeout)
ReadDone ==
    /\ UNCHANGED outsideExec
    /\ pc = "reading"
    /\ ~proc.pipes
    /\ pc' = "waiting"
    /\ waited' = 0
    /\ UNCHANGED <<plan, workspace_status, i, results, success, startLog,
                   proc, elapsed, lines, callbackLog>>

\* executor.py:125-153: the rest of the loop body after execute_command
\* returned r, up to the next await: append, result_callback (which may
\* raise), the exit-code test, and the return when the loop is over
AfterCommand(r, p2) ==
    LET result == CommandResult(i, r, elapsed) IN
    /\ results' = Append(results, result)
    /\ callbackLog' = Append(callbackLog, result.command_index)
    /\ proc' = p2
    /\ \E raises \in BOOLEAN :
        IF raises
        THEN /\ pc' = "raised"
             /\ workspace_status' = StatusOnExit(TRUE)
             /\ UNCHANGED <<success, i>>
        ELSE IF ShouldHalt(result, command)
        THEN /\ success' = FALSE
             /\ pc' = "returned"
             /\ workspace_status' = StatusOnExit(FALSE)
             /\ UNCHANGED i
        ELSE IF i + 1 = Len(plan)
        THEN /\ pc' = "returned"
             /\ workspace_status' = StatusOnExit(FALSE)
             /\ UNCHANGED <<success, i>>
        ELSE /\ pc' = "loop"
             /\ i' = i + 1
             /\ UNCHANGED <<success, workspace_status>>
    /\ elapsed' = 0
    /\ waited' = 0
    /\ lines' = 0
    /\ UNCHANGED <<plan, startLog>>

\* proc.wait() completes within the timeout
WaitExit ==
    /\ UNCHANGED outsideExec
    /\ pc = "waiting"
    /\ proc.state = "exited"
    /\ AfterCommand(ExitedResult(proc), NoProc)

\* wait_for raises TimeoutError: the child is killed
WaitTimeout ==
    /\ UNCHANGED outsideExec
    /\ pc = "waiting"
    /\ proc.state = "running"
    /\ waited >= command.timeout_seconds
    /\ AfterCommand(TimeoutResult, [NoProc EXCEPT !.state = "killed"])

NextExec ==
    \/ Call
    \/ CallRaises
    \/ StartCommand
    \/ StartCommandRaises
    \/ OutputLine
    \/ ProcClosePipes
    \/ ProcExit
    \/ Tick
    \/ ReadDone
    \/ WaitExit
    \/ WaitTimeout

(***************************************************************************)
(* Job Queue Consumer                                                      *)
(***************************************************************************)
Msgs == 1..NMsgs
Consumers == {"A", "B", "C"}

\* table jobs: the rows a message can name, and each row's agent_id
JobRows == {"j1", "j2", "j3"}
JobAgent(j) == IF j = "j1" THEN "a1" ELSE IF j = "j2" THEN "a2" ELSE "a3"

\* table agents: a1 is active, a2 is paused, a3 has no row
AgentRows == {"a1", "a2"}
AgentStatus(a) == IF a = "a1" THEN "active" ELSE "paused"

\* the job_id field of a message: absent, naming no row ("j0"), or naming a row
NoJobId == "none"
MsgJobIds == {NoJobId, "j0"} \cup JobRows

\* what executor.execute can do: return success, return a failure with or
\* without an error text, or raise
Outcomes == {"ok", "fail", "fail_none", "raise"}
ResultError == "handler failed"
ExcText == "boom"

NoOwner == "none"
NotPending == [owner |-> NoOwner, idle |-> 0]
Pending == {m \in Msgs : pel[m].owner # NoOwner}

\* the operations _process_message performs, in order
Op(name, a) == [op |-> name, arg |-> a]
Ack == Op("xack", "")
StartJob == Op("start_job", "")
Execute == Op("execute", "")
CompleteJob == Op("complete_job", "output")
FailJob(error) == Op("fail_job", error)
LogToRoadchain(ok) == Op("roadchain", IF ok THEN "success" ELSE "failure")

\* runner.py:217-227 and 229-246
FetchJob(job_id) == job_id \in JobRows
FetchAgent(agent_id) == agent_id \in AgentRows

\* runner.py:183
AgentIsError(status) == IF status = "paused" THEN "Agent is paused" ELSE "Agent is inactive"

\* _process_message without the test of the agent's status
MessageOpsNoStatusCheck(job_id) ==
    IF job_id = NoJobId THEN <<Ack>>
    ELSE IF ~FetchJob(job_id) THEN <<Ack, Ack>>
    ELSE IF ~FetchAgent(JobAgent(job_id)) THEN <<FailJob("Agent not found"), Ack, Ack>>
    ELSE <<StartJob, Execute>>

\* _process_message without the test that the job row exists
MessageOpsNoJobCheck(job_id) ==
    IF job_id = NoJobId THEN <<Ack>>
    ELSE IF ~FetchAgent(JobAgent(job_id)) THEN <<FailJob("Agent not found"), Ack, Ack>>
    ELSE IF AgentStatus(JobAgent(job_id)) # "active"
         THEN <<FailJob(AgentIsError(AgentStatus(JobAgent(job_id)))), Ack, Ack>>
    ELSE <<StartJob, Execute>>

\* runner.py:156-200: _process_message up to the call of executor.execute.
\* The early exits inside the try block acknowledge and return, and the
\* finally clause (runner.py:214-215) then acknowledges once more.
MessageOps(job_id) ==
    IF job_id = NoJobId THEN <<Ack>>
    ELSE IF ~FetchJob(job_id) THEN <<Ack, Ack>>
    ELSE IF ~FetchAgent(JobAgent(job_id)) THEN <<FailJob("Agent not found"), Ack, Ack>>
    ELSE IF AgentStatus(JobAgent(job_id)) # "active"
         THEN <<FailJob(AgentIsError(AgentStatus(JobAgent(job_id)))), Ack, Ack>>
    ELSE <<StartJob, Execute>>

\* _process_message without the except clause: the exception only passes the finally
ResultOpsNoExcept(outcome) ==
    IF outcome = "ok" THEN <<CompleteJob, LogToRoadchain(TRUE), Ack>>
    ELSE IF outcome = "fail" THEN <<FailJob(ResultError), LogToRoadchain(FALSE), Ack>>
    ELSE IF outcome = "fail_none" THEN <<FailJob("Unknown error"), LogToRoadchain(FALSE), Ack>>
    ELSE <<Ack>>

\* _process_message acknowledging before it records the result
ResultOpsAckFirst(outcome) ==
    IF outcome = "ok" THEN <<Ack, CompleteJob, LogToRoadchain(TRUE)>>
    ELSE IF outcome = "fail" THEN <<Ack, FailJob(ResultError), LogToRoadchain(FALSE)>>
    ELSE IF outcome = "fail_none" THEN <<Ack, FailJob("Unknown error"), LogToRoadchain(FALSE)>>
    ELSE <<Ack, FailJob(ExcText)>>

\* _process_message leaving the message of a failed job unacknowledged
ResultOpsNoAckOnFailure(outcome) ==
    IF outcome = "ok" THEN <<CompleteJob, LogToRoadchain(TRUE), Ack>>
    ELSE IF outcome = "fail" THEN <<FailJob(ResultError), LogToRoadchain(FALSE)>>
    ELSE IF outcome = "fail_none" THEN <<FailJob("Unknown error"), LogToRoadchain(FALSE)>>
    ELSE <<FailJob(ExcText)>>

\* _process_message recording result.error as it is, without a default text
ResultOpsErrorAsIs(outcome) ==
    IF outcome = "ok" THEN <<CompleteJob, LogToRoadchain(TRUE), Ack>>
    ELSE IF outcome = "fail" THEN <<FailJob(ResultError), LogToRoadchain(FALSE), Ack>>
    ELSE IF outcome = "fail_none" THEN <<FailJob(""), LogToRoadchain(FALSE), Ack>>
    ELSE <<FailJob(ExcText), Ack>>

\* runner.py:202-215: _process_message from the return (or raise) of executor.execute
ResultOps(outcome) ==
    IF outcome = "ok" THEN <<CompleteJob, LogToRoadchain(TRUE), Ack>>
    ELSE IF outcome = "fail" THEN <<FailJob(ResultError), LogToRoadchain(FALSE), Ack>>
    ELSE IF outcome = "fail_none" THEN <<FailJob("Unknown error"), LogToRoadchain(FALSE), Ack>>
    ELSE <<FailJob(ExcText), Ack>>

\* number of operations named name in ops
RECURSIVE CountOp(_, _)
CountOp(ops, name) ==
    IF ops = <<>> THEN 0
    ELSE (IF Head(ops).op = name THEN 1 ELSE 0) + CountOp(Tail(ops), name)

\* runner.py:248-313: the jobs row after the operations ops on job j
RECURSIVE JobAfter(_, _)
JobAfter(row, ops) ==
    IF ops = <<>> THEN row
    ELSE LET o == Head(ops) IN
         JobAfter(
            IF o.op = "start_job" THEN [row EXCEPT !.status = "running"]
            ELSE IF o.op = "complete_job"
                 THEN [row EXCEPT !.status = "succeeded", !.output = o.arg]
            ELSE IF o.op = "fail_job"
                 THEN [row EXCEPT !.status = "failed", !.error = o.arg]
            ELSE row,
            Tail(ops))

\* runner.py:258-264, 277-284, 306-313: the job_events rows ops inserts
RECURSIVE EventsOf(_)
EventsOf(ops) ==
    IF ops = <<>> THEN <<>>
    ELSE LET o == Head(ops) IN
         (IF o.op = "start_job" THEN <<"started">>
          ELSE IF o.op = "complete_job" THEN <<"completed">>
          ELSE IF o.op = "fail_job" THEN <<"failed">>
          ELSE <<>>) \o EventsOf(Tail(ops))

\* runner.py:315-336: the roadchain rows ops inserts
RECURSIVE AuditOf(_)
AuditOf(ops) ==
    IF ops = <<>> THEN <<>>
    ELSE LET o == Head(ops) IN
         (IF o.op = "roadchain" THEN <<o.arg>> ELSE <<>>) \o AuditOf(Tail(ops))

\* the n smallest elements of a set of message ids
FirstN(S, n) == {m \in S : Cardinality({x \in S : x < m}) < n}

\* a set of message ids as a sequence in id order
RECURSIVE InOrder(_)
InOrder(S) ==
    IF S = {} THEN <<>>
    ELSE LET lo == CHOOSE m \in S : \A x \in S : m <= x
         IN  <<lo>> \o InOrder(S \ {lo})

\* runner.py:133-139: XPENDING from "-" to "+" returns at most count entries,
\* lowest ids first, whoever owns them
XPendingRange(p, count) == FirstN({m \in Msgs : p[m].owner # NoOwner}, count)

\* runner.py:141-142: the entries of the scan this consumer claims
StuckEntries(p, count) ==
    {m \in XPendingRange(p, count) : p[m].idle > claim_min_idle_ms}

\* runner.py:143-149: XCLAIM gives the entry to consumer c and restarts its
\* idle time (the entry is idle for at least min_idle_time, so Redis claims it)
XClaim(p, c, ids) ==
    [m \in Msgs |-> IF m \in ids THEN [owner |-> c, idle |-> 0] ELSE p[m]]

\* a read that also returns the entries the consumer already owns
XReadGroupWithOwned(p, c, count) ==
    {m \in Msgs : p[m].owner = c}
      \cup {m \in Msgs : m > last_delivered /\ m <= last_delivered + count}

\* runner.py:115-121: XREADGROUP with id ">" returns at most count messages
\* never delivered to any consumer of the group, whatever the consumer owns
XReadGroup(p, c, count) ==
    {m \in Msgs : m > last_delivered /\ m <= last_delivered + count}

\* an order on the job_id values, to list each stream content once up to the
\* order of its messages
KindRank(k) ==
    IF k = NoJobId THEN 0 ELSE IF k = "j0" THEN 1 ELSE IF k = "j1" THEN 2
    ELSE IF k = "j2" THEN 3 ELSE 4

\* the group before any consumer polled, the messages on the stream
WorkerStart ==
    /\ msgJob \in [Msgs -> MsgJobIds]
    /\ \A m \in Msgs : m > 1 => KindRank(msgJob[m - 1]) <= KindRank(msgJob[m])
    /\ last_delivered = 0
    /\ pel = [m \in Msgs |-> NotPending]
    /\ wpc = [c \in Consumers |-> "poll"]
    /\ batch = [c \in Consumers |-> <<>>]
    /\ jobs = [j \in JobRows |-> [status |-> "queued", error |-> "", output |-> "", retry_count |-> 0]]
    /\ job_events = [j \in JobRows |-> <<>>]
    /\ roadchain = [j \in JobRows |-> <<>>]
    /\ acks = [m \in Msgs |-> 0]
    /\ dispatches = [m \in Msgs |-> 0]
    /\ executed = [m \in Msgs |-> "none"]
    /\ effects = [m \in Msgs |-> <<>>]

\* the store and the stream after consumer c performed ops for message m
Perform(c, m, ops) ==
    LET j == msgJob[m] IN
    /\ effects' = [effects EXCEPT ![m] = @ \o ops]
    /\ acks' = [acks EXCEPT ![m] = @ + CountOp(ops, "xack")]
    /\ dispatches' = [dispatches EXCEPT ![m] = @ + CountOp(ops, "execute")]
    /\ pel' = IF CountOp(ops, "xack") > 0 THEN [pel EXCEPT ![m] = NotPending] ELSE pel
    /\ IF j \in JobRows
       THEN /\ jobs' = [jobs EXCEPT ![j] = JobAfter(@, ops)]
            /\ job_events' = [job_events EXCEPT ![j] = @ \o EventsOf(ops)]
            /\ roadchain' = [roadchain EXCEPT ![j] = @ \o AuditOf(ops)]
       ELSE UNCHANGED <<jobs, job_events, roadchain>>

\* the consumer is done with the head of its batch
NextMessage(c) ==
    /\ batch' = [batch EXCEPT ![c] = Tail(@)]
    /\ wpc' = [wpc EXCEPT ![c] = IF Tail(batch[c]) = <<>> THEN "poll" ELSE "process"]

\* runner.py:109-128: one iteration of _process_batch up to the first
\* message: _claim_stuck_messages (runner.py:130-152), then the read of new
\* messages; an empty reply ends the iteration
Poll(c) ==
    /\ UNCHANGED outsideWorker
    /\ wpc[c] = "poll"
    /\ LET claimed == XClaim(pel, c, StuckEntries(pel, batch_size))
           got == XReadGroup(claimed, c, batch_size)
           new == {m \in got : m > last_delivered} IN
        /\ pel' = XClaim(claimed, c, new)
        /\ last_delivered' = last_delivered + Cardinality(new)
        /\ batch' = [batch EXCEPT ![c] = InOrder(got)]
        /\ wpc' = [wpc EXCEPT ![c] = IF got = {} THEN "poll" ELSE "process"]
    /\ UNCHANGED <<msgJob, jobs, job_events, roadchain, acks, dispatches, executed, effects>>

\* runner.py:154-200: _process_message for the next message of the batch, up
\* to its return or to the await of executor.execute
ProcessStart(c) ==
    /\ UNCHANGED outsideWorker
    /\ wpc[c] = "process"
    /\ LET m == Head(batch[c])
           ops == MessageOps(msgJob[m]) IN
        /\ Perform(c, m, ops)
        /\ IF ops[Len(ops)].op = "execute"
           THEN /\ wpc' = [wpc EXCEPT ![c] = "executing"]
                /\ UNCHANGED batch
           ELSE NextMessage(c)
    /\ UNCHANGED <<msgJob, last_delivered, executed>>

\* runner.py:202-215: executor.execute returned or raised
ProcessFinish(c) ==
    /\ UNCHANGED outsideWorker
    /\ wpc[c] = "executing"
    /\ \E outcome \in Outcomes :
        /\ Perform(c, Head(batch[c]), ResultOps(outcome))
        /\ executed' = [executed EXCEPT ![Head(batch[c])] = outcome]
    /\ NextMessage(c)
    /\ UNCHANGED <<msgJob, last_delivered>>

\* a worker process dies while it holds unacknowledged messages; at least
\* one worker of the group keeps running
Crash(c) ==
    /\ UNCHANGED outsideWorker
    /\ wpc[c] \in {"process", "executing"}
    /\ \E d \in Consumers \ {c} : wpc[d] # "crashed"
    /\ wpc' = [wpc EXCEPT ![c] = "crashed"]
    /\ batch' = [batch EXCEPT ![c] = <<>>]
    /\ UNCHANGED <<msgJob, last_delivered, pel, jobs, job_events, roadchain,
                   acks, dispatches, executed, effects>>

\* time passes: every pending entry's time since delivery grows
Clock ==
    /\ UNCHANGED outsideWorker
    /\ \E m \in Pending : pel[m].idle <= claim_min_idle_ms
    /\ pel' = [m \in Msgs |->
                 IF m \in Pending /\ pel[m].idle <= claim_min_idle_ms
                 THEN [pel[m] EXCEPT !.idle = @ + 1]
                 ELSE pel[m]]
    /\ UNCHANGED <<msgJob, last_delivered, wpc, batch, jobs, job_events, roadchain,
                   acks, dispatches, executed, effects>>

\* one step of the worker loop of consumer c (runner.py:83-88)
WorkerStep(c) ==
    \/ Poll(c)
    \/ ProcessStart(c)
    \/ ProcessFinish(c)

NextWorker ==
    \/ \E c \in Consumers : WorkerStep(c)
    \/ \E c \in Consumers : Crash(c)
    \/ Clock

(***************************************************************************)
(* Runtime Dispatcher                                                      *)
(***************************************************************************)
\* worker/executor.py:18-25: the values of enum RuntimeType
RuntimeType == {"llm_brain", "llm_workflow", "workflow_engine",
                "python_script", "http_webhook", "composite"}

\* the runtime_type entry of a manifest: a supported type, no entry, or a
\* string that is no member of the enum
ManifestTypes == RuntimeType \cup {"absent", "not_a_type"}

\* the settings a handler reads from the manifest (llm, workflow, script,
\* webhook, sub_agents): not given, given as the handler expects them, or
\* given with a type the handler does not expect
Shapes == {"missing", "ok", "malformed"}

Manifests == [runtime_type : ManifestTypes, settings : Shapes]

NoException == "none"
NoResult == [success |-> FALSE, error |-> "not returned", duration_ms |-> 0]

\* worker/executor.py:28-35
ExecutionResult(ok, err, ms) == [success |-> ok, error |-> err, duration_ms |-> ms]

\* worker/executor.py:92: manifest.get("runtime_type", "llm_brain")
RuntimeTypeOf(m) == IF m.runtime_type = "absent" THEN "llm_brain" ELSE m.runtime_type

\* worker/executor.py:93: RuntimeType(runtime_type) raises ValueError for a
\* string that is no member; every member has an entry in _handlers
LookupRaises(runtime_type) ==
    IF runtime_type \in RuntimeType THEN NoException
    ELSE "ValueError: not a valid RuntimeType"

\* the error text of a handler that finds its settings missing
MissingError(runtime_type) ==
    IF runtime_type = "llm_workflow" THEN "No workflow steps defined"
    ELSE IF runtime_type = "workflow_engine" THEN "No workflow nodes defined"
    ELSE IF runtime_type = "python_script" THEN "No script defined"
    ELSE IF runtime_type = "http_webhook" THEN "No webhook URL defined"
    ELSE "No sub-agents defined"

\* worker/executor.py:113-316: what the handler of runtime_type does with
\* the manifest and the input: the exception it raises, or NoException
HandlerRaises(runtime_type, settings, inputOk) ==
    IF runtime_type = "python_script" THEN NoException
    ELSE IF settings = "malformed" THEN "AttributeError: object has no attribute get"
    ELSE IF runtime_type = "llm_brain" /\ ~inputOk
         THEN "TypeError: object is not subscriptable"
    ELSE IF runtime_type = "llm_workflow" /\ settings = "ok" /\ ~inputOk
         THEN "AttributeError: object has no attribute copy"
    ELSE NoException

\* worker/executor.py:113-316: the ExecutionResult of a handler that returns
HandlerResult(runtime_type, settings) ==
    IF runtime_type # "llm_brain" /\ settings = "missing"
    THEN ExecutionResult(FALSE, MissingError(runtime_type), 0)
    ELSE ExecutionResult(TRUE, "", 0)

\* an except clause that only takes the lookup's ValueError
CatchesValueErrorOnly(exc) == exc = "ValueError: not a valid RuntimeType"

\* worker/executor.py:105: except Exception takes every exception raised by
\* the lookup or by a handler
Catches(exc) == TRUE

\* AgentExecutor before a call of execute, the arguments at hand
DispatchStart ==
    /\ manifest \in Manifests
    /\ input_ok \in BOOLEAN
    /\ dpc = "idle"
    /\ exec_ms = 0
    /\ thrown = NoException
    /\ exec_result = NoResult

\* worker/executor.py:105-111: the exception exc leaves the try block
ExceptionIn(exc) ==
    /\ thrown' = exc
    /\ IF Catches(exc)
       THEN /\ dpc' = "returned"
            /\ exec_result' = ExecutionResult(FALSE, exc, exec_ms)
       ELSE /\ dpc' = "raised"
            /\ UNCHANGED exec_result

\* worker/executor.py:89-101: execute takes start_time and looks the
\* handler up, up to the await of the handler
ExecuteCall ==
    /\ UNCHANGED outsideDispatch
    /\ dpc = "idle"
    /\ LET exc == LookupRaises(RuntimeTypeOf(manifest)) IN
        IF exc # NoException
        THEN ExceptionIn(exc)
        ELSE /\ dpc' = "handler"
             /\ UNCHANGED <<thrown, exec_result>>
    /\ UNCHANGED <<manifest, input_ok, exec_ms>>

\* time passes while the handler runs
ExecuteTick ==
    /\ UNCHANGED outsideDispatch
    /\ dpc = "handler"
    /\ exec_ms < MaxExecMs
    /\ exec_ms' = exec_ms + 1
    /\ UNCHANGED <<manifest, input_ok, dpc, thrown, exec_result>>

\* worker/executor.py:101-103: the handler returns its result, which gets
\* the duration
HandlerReturn ==
    /\ UNCHANGED outsideDispatch
    /\ dpc = "handler"
    /\ HandlerRaises(RuntimeTypeOf(manifest), manifest.settings, input_ok) = NoException
    /\ exec_result' = [HandlerResult(RuntimeTypeOf(manifest), manifest.settings)
                          EXCEPT !.duration_ms = exec_ms]
    /\ dpc' = "returned"
    /\ UNCHANGED <<manifest, input_ok, exec_ms, thrown>>

\* worker/executor.py:101, 105-111: the handler raises
HandlerRaise ==
    /\ UNCHANGED outsideDispatch
    /\ dpc = "handler"
    /\ HandlerRaises(RuntimeTypeOf(manifest), manifest.settings, input_ok) # NoException
    /\ ExceptionIn(HandlerRaises(RuntimeTypeOf(manifest), manifest.settings, input_ok))
    /\ UNCHANGED <<manifest, input_ok, exec_ms>>

NextDispatch ==
    \/ ExecuteCall
    \/ ExecuteTick
    \/ HandlerReturn
    \/ HandlerRaise

(***************************************************************************)
(* Connection Manager                                                      *)
(***************************************************************************)
None == 0

\* the number of the connection attempted after connection n
NextConn(n) == (n % MaxConns) + 1

\* inbound messages by what _handle_message does with them: text that is
\* no JSON, JSON that is no object, a type with no handler and no built-in
\* meaning, a type whose registered handler returns, one whose handler
\* raises, and the built-in ping
MsgKinds == {"invalid_json", "not_object", "unknown", "handler_ok",
             "handler_raises", "ping"}

\* connection.py:151-152: the kinds that await a registered handler
HasHandler(kind) == kind \in {"handler_ok", "handler_raises"}

\* a sleep that grows with the number of the connection
ReconnectDelayBackoff(n) == reconnect_delay * n

\* connection.py:104-106: the sleep before the attempt that follows connection n
ReconnectDelay(n) == reconnect_delay

\* send without its try block: a failure of the channel send leaves send
SendOutcomeNoExcept(handle, channel, fails) ==
    IF handle = None THEN "False"
    ELSE IF channel # "open" \/ fails THEN "raised"
    ELSE "True"

\* connection.py:48-62: what send returns. The channel send fails on a
\* closed channel and may fail on an open one; its exception is caught
SendOutcome(handle, channel, fails) ==
    IF handle = None THEN "False"
    ELSE IF channel # "open" \/ fails THEN "False"
    ELSE "True"

\* _handle_message with the except clause for JSONDecodeError only
HandleMessageRaisesNoCatchAll(kind) == kind \in {"not_object", "handler_raises"}

\* connection.py:141-165: whether _handle_message lets an exception out;
\* JSONDecodeError and every other Exception are caught and logged
HandleMessageRaises(kind) == FALSE

\* connection.py:144-165: whether the message ends in an error or warning
\* log entry and nothing else
IsDropped(kind) ==
    kind \in {"invalid_json", "not_object", "unknown", "handler_raises"}

\* a finally block that cancels the heartbeat task and goes on
HeartbeatAwaitedCancelOnly(h) == TRUE

\* connection.py:91-95: await heartbeat_task returns once the task is finished
HeartbeatAwaited(h) == h = "none"

\* the connection manager after construction (connection.py:23-30)
ConnStart ==
    /\ running = FALSE
    /\ ws = None
    /\ chan = "none"
    /\ cpc = "not_started"
    /\ conn_id = MaxConns
    /\ slept = 0
    /\ hb = "none"
    /\ hbAlive = 0
    /\ hbTimer = 0
    /\ disconnected = FALSE
    /\ discAt = "none"
    /\ send_result = "none"
    /\ lastMsg = "none"
    /\ handledHere = 0
    /\ dropped = 0

\* connection.py:101-106: the finally clause clears the handle, then
\* connect sleeps if it is still running, else the loop test ends connect
AfterConnection ==
    /\ ws' = None
    /\ chan' = "none"
    /\ slept' = 0
    /\ cpc' = IF running THEN "sleeping" ELSE "returned"

\* connection.py:64-72: connect() is called and starts the first attempt
ConnectCall ==
    /\ UNCHANGED outsideConn
    /\ cpc = "not_started"
    /\ running' = TRUE
    /\ cpc' = "connecting"
    /\ conn_id' = NextConn(conn_id)
    /\ UNCHANGED <<ws, chan, slept, hb, hbAlive, hbTimer, disconnected, discAt,
                   send_result, lastMsg, handledHere, dropped>>

\* connection.py:72-78: websockets.connect succeeds, the handle is set
ConnectSucceeds ==
    /\ UNCHANGED outsideConn
    /\ cpc = "connecting"
    /\ ws' = conn_id
    /\ chan' = "open"
    /\ cpc' = "registering"
    /\ lastMsg' = "none"
    /\ handledHere' = 0
    /\ dropped' = 0
    /\ UNCHANGED <<running, conn_id, slept, hb, hbAlive, hbTimer, disconnected,
                   discAt, send_result>>

\* connection.py:72-76, 99-106: websockets.connect raises
ConnectFails ==
    /\ UNCHANGED outsideConn
    /\ cpc = "connecting"
    /\ AfterConnection
    /\ UNCHANGED <<running, conn_id, hb, hbAlive, hbTimer, disconnected, discAt,
                   send_result, lastMsg, handledHere, dropped>>

\* connection.py:80-84: _register sends the registration, then the
\* heartbeat task is created; an exception out of _register ends the
\* connection before any heartbeat task exists
Register ==
    /\ UNCHANGED outsideConn
    /\ cpc = "registering"
    /\ \E fails \in BOOLEAN :
        /\ send_result' = SendOutcome(ws, chan, fails)
        /\ IF send_result' = "raised"
           THEN /\ AfterConnection
                /\ UNCHANGED <<hb, hbAlive, hbTimer>>
           ELSE /\ hb' = "waiting"
                /\ hbAlive' = hbAlive + 1
                /\ hbTimer' = 0
                /\ cpc' = "receiving"
                /\ UNCHANGED <<ws, chan, slept>>
    /\ UNCHANGED <<running, conn_id, disconnected, discAt, lastMsg, handledHere, dropped>>

\* connection.py:90-95: the receive loop is left: the heartbeat task is
\* cancelled and connect awaits it
LeaveLoop ==
    /\ hb' = "cancel_requested"
    /\ cpc' = "cancelling"

\* connection.py:88-89, 141-165: the receive loop gets a message and
\* _handle_message runs up to its return or to the await of a handler
Receive ==
    /\ UNCHANGED outsideConn
    /\ cpc = "receiving"
    /\ chan = "open"
    /\ \E kind \in MsgKinds, fails \in BOOLEAN :
        /\ lastMsg' = kind
        /\ handledHere' = Min(handledHere + 1, MaxInbox)
        /\ IF HasHandler(kind)
           THEN /\ cpc' = "handling"
                /\ UNCHANGED <<hb, dropped, send_result>>
           ELSE IF HandleMessageRaises(kind)
           THEN /\ LeaveLoop
                /\ UNCHANGED <<dropped, send_result>>
           ELSE /\ dropped' = IF IsDropped(kind) THEN Min(dropped + 1, MaxInbox) ELSE dropped
                /\ send_result' = IF kind = "ping" THEN SendOutcome(ws, chan, fails)
                                  ELSE send_result
                /\ UNCHANGED <<cpc, hb>>
    /\ UNCHANGED <<running, ws, chan, conn_id, slept, hbAlive, hbTimer, disconnected, discAt>>

\* connection.py:152, 164-165: the registered handler returns or raises
HandlerDone ==
    /\ UNCHANGED outsideConn
    /\ cpc = "handling"
    /\ IF lastMsg = "handler_raises" /\ HandleMessageRaises(lastMsg)
       THEN /\ LeaveLoop
            /\ UNCHANGED dropped
       ELSE /\ cpc' = "receiving"
            /\ dropped' = IF IsDropped(lastMsg) THEN Min(dropped + 1, MaxInbox) ELSE dropped
            /\ UNCHANGED hb
    /\ UNCHANGED <<running, ws, chan, conn_id, slept, hbAlive, hbTimer, disconnected,
                   discAt, send_result, lastMsg, handledHere>>

\* the controller closes the channel, or the network drops it
ChannelCloses ==
    /\ UNCHANGED outsideConn
    /\ cpc \in {"registering", "receiving", "handling"}
    /\ chan = "open"
    /\ chan' = "closed"
    /\ UNCHANGED <<running, ws, cpc, conn_id, slept, hb, hbAlive, hbTimer, disconnected,
                   discAt, send_result, lastMsg, handledHere, dropped>>

\* connection.py:88-91: the iteration over the channel ends, normally or
\* with ConnectionClosed
LoopEnds ==
    /\ UNCHANGED outsideConn
    /\ cpc = "receiving"
    /\ chan = "closed"
    /\ LeaveLoop
    /\ UNCHANGED <<running, ws, chan, conn_id, slept, hbAlive, hbTimer, disconnected,
                   discAt, send_result, lastMsg, handledHere, dropped>>

\* connection.py:127-130: the cancelled heartbeat task gets CancelledError
\* at its await and finishes
HeartbeatSettles ==
    /\ UNCHANGED outsideConn
    /\ hb = "cancel_requested"
    /\ hb' = "none"
    /\ hbAlive' = hbAlive - 1
    /\ UNCHANGED <<running, ws, chan, cpc, conn_id, slept, hbTimer, disconnected,
                   discAt, send_result, lastMsg, handledHere, dropped>>

\* connection.py:92-106: await heartbeat_task returns, the connection's
\* context is left and the handle cleared
AfterCancel ==
    /\ UNCHANGED outsideConn
    /\ cpc = "cancelling"
    /\ HeartbeatAwaited(hb)
    /\ AfterConnection
    /\ UNCHANGED <<running, conn_id, hb, hbAlive, hbTimer, disconnected, discAt,
                   send_result, lastMsg, handledHere, dropped>>

\* one unit of time passes for the sleep of connect and for the sleep of
\* the heartbeat task; a sleep ends no later than its deadline
ConnTick ==
    /\ UNCHANGED outsideConn
    /\ cpc = "sleeping" \/ hb = "waiting"
    /\ cpc = "sleeping" => slept < ReconnectDelay(conn_id)
    /\ hb = "waiting" => hbTimer < heartbeat_interval
    /\ slept' = IF cpc = "sleeping" THEN slept + 1 ELSE slept
    /\ hbTimer' = IF hb = "waiting" THEN hbTimer + 1 ELSE hbTimer
    /\ UNCHANGED <<running, ws, chan, cpc, conn_id, hb, hbAlive, disconnected,
                   discAt, send_result, lastMsg, handledHere, dropped>>

\* connection.py:106, 68: the sleep is over and the loop tests _running
SleepDone ==
    /\ UNCHANGED outsideConn
    /\ cpc = "sleeping"
    /\ slept >= ReconnectDelay(conn_id)
    /\ IF running
       THEN /\ cpc' = "connecting"
            /\ conn_id' = NextConn(conn_id)
       ELSE /\ cpc' = "returned"
            /\ UNCHANGED conn_id
    /\ UNCHANGED <<running, ws, chan, slept, hb, hbAlive, hbTimer, disconnected,
                   discAt, send_result, lastMsg, handledHere, dropped>>

\* connection.py:129-139: the heartbeat task's sleep is over, it sends a
\* heartbeat and sleeps again; an exception of send would be logged
HeartbeatSend ==
    /\ UNCHANGED outsideConn
    /\ hb = "waiting"
    /\ hbTimer >= heartbeat_interval
    /\ \E fails \in BOOLEAN : send_result' = SendOutcome(ws, chan, fails)
    /\ hbTimer' = 0
    /\ UNCHANGED <<running, ws, chan, cpc, conn_id, slept, hb, hbAlive, disconnected,
                   discAt, lastMsg, handledHere, dropped>>

\* connection.py:48-62: send called by the daemon (main.py:108-149) at any time
Send ==
    /\ UNCHANGED outsideConn
    /\ \E fails \in BOOLEAN : send_result' = SendOutcome(ws, chan, fails)
    /\ UNCHANGED <<running, ws, chan, cpc, conn_id, slept, hb, hbAlive, hbTimer,
                   disconnected, discAt, lastMsg, handledHere, dropped>>

\* connection.py:108-112: disconnect() clears _running and closes the
\* channel if a handle is set
Disconnect ==
    /\ UNCHANGED outsideConn
    /\ cpc \notin {"not_started", "returned"}
    /\ ~disconnected
    /\ running' = FALSE
    /\ disconnected' = TRUE
    /\ discAt' = cpc
    /\ chan' = IF ws # None /\ chan = "open" THEN "closed" ELSE chan
    /\ UNCHANGED <<ws, cpc, conn_id, slept, hb, hbAlive, hbTimer, send_result,
                   lastMsg, handledHere, dropped>>

\* the steps connect() takes by itself
ConnectStep ==
    \/ ConnectCall
    \/ ConnectSucceeds
    \/ ConnectFails
    \/ Register
    \/ HandlerDone
    \/ LoopEnds
    \/ AfterCancel
    \/ SleepDone

\* the steps of the heartbeat task
HeartbeatStep ==
    \/ HeartbeatSend
    \/ HeartbeatSettles

NextConnection ==
    \/ ConnectStep
    \/ HeartbeatStep
    \/ Receive
    \/ ChannelCloses
    \/ ConnTick
    \/ Send
    \/ Disconnect

(***************************************************************************)
(* Job Queue Consumer: one message, store calls that can fail              *)
(***************************************************************************)
\* the text of an exception raised by a failing store call
StoreError == "store error"

\* runner.py:166-205: the store calls inside the try block, in source order:
\* the reads of _fetch_job and _fetch_agent, the two writes of _start_job,
\* the three of _complete_job, the two of _fail_job, and _log_to_roadchain
TryCalls == {"fetch", "start_update", "start_event", "complete_update",
             "complete_event", "complete_agent", "fail_update", "fail_event",
             "roadchain"}

\* runner.py:166-205: the call that follows a successful call of the try block
AfterCall(pos) ==
    IF pos = "fetch" THEN "start_update"
    ELSE IF pos = "start_update" THEN "start_event"
    ELSE IF pos = "start_event" THEN "execute"
    ELSE IF pos = "complete_update" THEN "complete_event"
    ELSE IF pos = "complete_event" THEN "complete_agent"
    ELSE IF pos = "complete_agent" THEN "roadchain"
    ELSE IF pos = "fail_update" THEN "fail_event"
    ELSE IF pos = "fail_event" THEN "roadchain"
    ELSE "ack"

\* runner.py:248-313: the jobs row after the successful call pos
RowAfter(r, pos, error) ==
    IF pos = "start_update" THEN [r EXCEPT !.status = "running"]
    ELSE IF pos = "complete_update" THEN [r EXCEPT !.status = "succeeded"]
    ELSE IF pos \in {"fail_update", "except_update"}
         THEN [r EXCEPT !.status = "failed", !.error = error]
    ELSE r

\* runner.py:258-264, 277-284, 306-313: the job_events rows after the successful call pos
EventsAfter(ev, pos) ==
    IF pos = "start_event" THEN Append(ev, "started")
    ELSE IF pos = "complete_event" THEN Append(ev, "completed")
    ELSE IF pos \in {"fail_event", "except_event"} THEN Append(ev, "failed")
    ELSE ev

\* runner.py:210-212: an exception of the try block is caught and _fail_job called
OnStoreError(pos) == "except_update"

\* one worker about to process the first message for a queued job whose agent is active
StoreStart ==
    /\ job_row = [status |-> "queued", error |-> ""]
    /\ row_events = <<>>
    /\ audit_rows = 0
    /\ ppc = "fetch"
    /\ attempt = 1
    /\ exec_outcome = "none"
    /\ caught = "none"
    /\ failedAt = "none"
    /\ propagating = FALSE
    /\ acked = FALSE
    /\ raised_out = FALSE

\* runner.py:166-205: one store call of the try block succeeds or raises
TryCall ==
    /\ UNCHANGED outsideStore
    /\ ppc \in TryCalls
    /\ \E ok \in BOOLEAN :
        IF ok
        THEN /\ job_row' = RowAfter(job_row, ppc, ResultError)
             /\ row_events' = EventsAfter(row_events, ppc)
             /\ audit_rows' = IF ppc = "roadchain" THEN audit_rows + 1 ELSE audit_rows
             /\ ppc' = AfterCall(ppc)
             /\ UNCHANGED <<caught, failedAt, propagating>>
        ELSE /\ caught' = StoreError
             /\ failedAt' = ppc
             /\ ppc' = OnStoreError(ppc)
             /\ propagating' = (ppc' = "ack")
             /\ UNCHANGED <<job_row, row_events, audit_rows>>
    /\ UNCHANGED <<attempt, exec_outcome, acked, raised_out>>

\* runner.py:190-208: executor.execute returns a success or a failure, or raises
Dispatch ==
    /\ UNCHANGED outsideStore
    /\ ppc = "execute"
    /\ \E outcome \in {"ok", "fail", "raise"} :
        /\ exec_outcome' = outcome
        /\ ppc' = IF outcome = "ok" THEN "complete_update"
                  ELSE IF outcome = "fail" THEN "fail_update"
                  ELSE "except_update"
        /\ caught' = IF outcome = "raise" THEN ExcText ELSE caught
    /\ UNCHANGED <<job_row, row_events, audit_rows, attempt, failedAt, propagating,
                   acked, raised_out>>

\* runner.py:210-212, 295-313: one write of _fail_job in the except clause
\* succeeds, or raises and the exception leaves _process_message
ExceptCall ==
    /\ UNCHANGED outsideStore
    /\ ppc \in {"except_update", "except_event"}
    /\ \E ok \in BOOLEAN :
        IF ok
        THEN /\ job_row' = RowAfter(job_row, ppc, caught)
             /\ row_events' = EventsAfter(row_events, ppc)
             /\ ppc' = IF ppc = "except_update" THEN "except_event" ELSE "ack"
             /\ UNCHANGED <<failedAt, propagating>>
        ELSE /\ ppc' = "ack"
             /\ propagating' = TRUE
             /\ failedAt' = IF failedAt = "none" THEN ppc ELSE failedAt
             /\ UNCHANGED <<job_row, row_events>>
    /\ UNCHANGED <<audit_rows, attempt, exec_outcome, caught, acked, raised_out>>

\* runner.py:213-215, 338-344: the finally clause acknowledges; the XACK may fail
FinallyAck ==
    /\ UNCHANGED outsideStore
    /\ ppc = "ack"
    /\ \E ok \in BOOLEAN :
        /\ acked' = ok
        /\ raised_out' = (propagating \/ ~ok)
        /\ failedAt' = IF ~ok /\ failedAt = "none" THEN "ack" ELSE failedAt
    /\ ppc' = "done"
    /\ UNCHANGED <<job_row, row_events, audit_rows, attempt, exec_outcome, caught, propagating>>

\* runner.py:126-128, 83-88: the worker goes on to the next message, which
\* names the same job
NextAttempt ==
    /\ UNCHANGED outsideStore
    /\ ppc = "done"
    /\ attempt < MaxAttempts
    /\ attempt' = attempt + 1
    /\ ppc' = "fetch"
    /\ exec_outcome' = "none"
    /\ caught' = "none"
    /\ failedAt' = "none"
    /\ propagating' = FALSE
    /\ acked' = FALSE
    /\ raised_out' = FALSE
    /\ UNCHANGED <<job_row, row_events, audit_rows>>

NextStore ==
    \/ TryCall
    \/ Dispatch
    \/ ExceptCall
    \/ FinallyAck
    \/ NextAttempt

(***************************************************************************)
(* Agent Daemon: the execute_task handler                                  *)
(***************************************************************************)
\* main.py:141-142: the slice bounds of the task_complete texts
OutputLimit == 10000
ErrorLimit == 5000

\* A text is a sequence of runs [ch, n]: n > 0 copies of the character ch,
\* adjacent runs having different characters.
Run(c, k) == IF k = 0 THEN <<>> ELSE <<[ch |-> c, n |-> k]>>

NL == Run(<<"nl", 0>>, 1)

RECURSIVE TextLen(_)
TextLen(t) == IF t = <<>> THEN 0 ELSE t[1].n + TextLen(Tail(t))

\* a + b of two str values
Cat(a, b) ==
    IF a = <<>> THEN b
    ELSE IF b = <<>> THEN a
    ELSE IF a[Len(a)].ch = b[1].ch
         THEN SubSeq(a, 1, Len(a) - 1)
              \o <<[ch |-> b[1].ch, n |-> a[Len(a)].n + b[1].n]>> \o Tail(b)
    ELSE a \o b

\* main.py:132-133: sep.join(parts)
RECURSIVE Join(_, _)
Join(sep, parts) ==
    IF parts = <<>> THEN <<>>
    ELSE IF Len(parts) = 1 THEN parts[1]
    ELSE Cat(Cat(parts[1], sep), Join(sep, Tail(parts)))

\* a slice that keeps the first k characters, t[:k]
RECURSIVE FirstChars(_, _)
FirstChars(t, k) ==
    IF t = <<>> \/ k = 0 THEN <<>>
    ELSE IF t[1].n >= k THEN Run(t[1].ch, k)
    ELSE <<t[1]>> \o FirstChars(Tail(t), k - t[1].n)

\* main.py:141-142: the slice t[-k:] for k > 0
RECURSIVE LastChars(_, _)
LastChars(t, k) ==
    IF t = <<>> \/ k = 0 THEN <<>>
    ELSE LET r == t[Len(t)]
         IN  IF r.n >= k THEN Run(r.ch, k)
             ELSE LastChars(SubSeq(t, 1, Len(t) - 1), k - r.n) \o <<r>>

\* an optional text: a key of the payload that is present, or None / absent
Some(t) == [has |-> TRUE, text |-> t]
Nothing == [has |-> FALSE, text |-> <<>>]

\* main.py:91: values of payload.get("task_id"): an id, the empty string, None
NoTaskId == "None"
TaskIds == {"t1", "", NoTaskId}

\* main.py:92: payload.get("plan") is None, {}, a non-empty value that is not
\* a dict, a dict TaskPlan rejects, or a dict TaskPlan accepts with ncmds commands
PlanKinds == {"missing", "empty", "not_a_dict", "invalid", "valid"}
Payloads ==
    {[task_id |-> t, plan |-> p, ncmds |-> n] :
        t \in TaskIds, p \in PlanKinds \ {"valid"}, n \in {0}}
    \cup {[task_id |-> t, plan |-> "valid", ncmds |-> n] :
            t \in TaskIds, n \in 0..MaxCmds}

\* main.py:94: not task_id or not plan_data
Falsy(payload) ==
    \/ payload.task_id \in {"", NoTaskId}
    \/ payload.plan \in {"missing", "empty"}

\* lengths of one command's stdout and stderr
StdoutLens == {0, 1, OutputLimit - 1, OutputLimit + 1}
StderrLens == {0, 1, ErrorLimit - 1, ErrorLimit + 1}

\* models.py:53-62: the CommandResult of command k (0-based), its texts made of
\* characters of its own
PlanResult(k, code, outLen, errLen) ==
    [command_index |-> k, exit_code |-> code,
     stdout |-> Run(<<"out", k>>, outLen), stderr |-> Run(<<"err", k>>, errLen)]

\* the exit code and the stdout and stderr lengths of each result of a run of
\* at most n commands
RawResults(n) ==
    UNION {[1..k -> {0, 1} \X StdoutLens \X StderrLens] : k \in 0..n}

\* executor.py:113-126: the result at position k carries command_index k - 1
ResultsOf(raw) ==
    [k \in 1..Len(raw) |-> PlanResult(k - 1, raw[k][1], raw[k][2], raw[k][3])]

\* executor.py:110-151: the (success, results) pairs execute_plan can return
\* for a plan of n commands: it stops after a command only when that command's
\* exit code is not 0, and returns success = False exactly when it stopped
PlanReturnsOf(n) ==
    {ret \in {[success |-> ok, results |-> ResultsOf(raw)] :
                 ok \in BOOLEAN, raw \in RawResults(n)} :
        IF ret.success
        THEN Len(ret.results) = n
        ELSE /\ Len(ret.results) >= 1
             /\ ret.results[Len(ret.results)].exit_code # 0}

\* main.py:132-143: the task_complete payload after the plan ran
TaskComplete(task_id, succeeded, rs) ==
    LET final_output == Join(NL, [k \in 1..Len(rs) |-> rs[k].stdout])
        withErr == SelectSeq(rs, LAMBDA res : res.stderr # <<>>)
        final_error == Join(NL, [k \in 1..Len(withErr) |-> withErr[k].stderr])
        final_exit_code == IF rs # <<>> THEN rs[Len(rs)].exit_code ELSE 0
    IN  [task_id |-> task_id,
         success |-> succeeded,
         exit_code |-> final_exit_code,
         output |-> Some(LastChars(final_output, OutputLimit)),
         error |-> IF final_error # <<>> THEN Some(LastChars(final_error, ErrorLimit))
                   ELSE Nothing]

\* main.py:147-154: the task_complete payload of the except clause; str(e) is
\* a text of its own and there is no output key
TaskCompleteOnError(task_id) ==
    [task_id |-> task_id,
     success |-> FALSE,
     exit_code |-> -1,
     output |-> Nothing,
     error |-> Some(Run(<<"exc", 0>>, 1))]

DaemonStart ==
    /\ task_payload = [task_id |-> NoTaskId, plan |-> "missing", ncmds |-> 0]
    /\ hpc = "idle"
    /\ task_outcome = "none"
    /\ task_results = <<>>
    /\ task_success = FALSE
    /\ task_sent = <<>>
    /\ current_task_id = NoTaskId

\* main.py:87-104, 147-158: an execute_task message arrives; the handler
\* returns at once on a falsy task_id or plan, raises at plan_data.get when the
\* plan is not a dict, sends the failure when TaskPlan rejects the plan, and
\* otherwise awaits execute_plan
HandleExecuteTask ==
    /\ UNCHANGED outsideDaemon
    /\ hpc \in {"idle", "returned"}
    /\ \E payload \in Payloads :
        /\ task_payload' = payload
        /\ task_results' = <<>>
        /\ task_success' = FALSE
        /\ IF Falsy(payload)
           THEN /\ hpc' = "returned"
                /\ task_outcome' = "skipped"
                /\ task_sent' = <<>>
                /\ UNCHANGED current_task_id
           ELSE IF payload.plan = "not_a_dict"
           THEN /\ hpc' = "returned"
                /\ task_outcome' = "crashed"
                /\ task_sent' = <<>>
                /\ UNCHANGED current_task_id
           ELSE IF payload.plan = "invalid"
           THEN /\ hpc' = "returned"
                /\ task_outcome' = "invalid"
                /\ task_sent' = <<TaskCompleteOnError(payload.task_id)>>
                /\ current_task_id' = NoTaskId
           ELSE /\ hpc' = "executing"
                /\ task_outcome' = "none"
                /\ task_sent' = <<>>
                /\ current_task_id' = payload.task_id

\* main.py:124-145, 156-158: execute_plan returns and task_complete is sent
PlanReturns ==
    /\ UNCHANGED outsideDaemon
    /\ hpc = "executing"
    /\ \E ret \in PlanReturnsOf(task_payload.ncmds) :
        /\ task_results' = ret.results
        /\ task_success' = ret.success
        /\ task_sent' = Append(task_sent,
               TaskComplete(task_payload.task_id, ret.success, ret.results))
    /\ task_outcome' = "returned"
    /\ current_task_id' = NoTaskId
    /\ hpc' = "returned"
    /\ UNCHANGED task_payload

\* main.py:124-129, 147-158: execute_plan raises and the except clause sends
\* the failure
PlanRaises ==
    /\ UNCHANGED outsideDaemon
    /\ hpc = "executing"
    /\ task_sent' = Append(task_sent, TaskCompleteOnError(task_payload.task_id))
    /\ task_outcome' = "raised"
    /\ current_task_id' = NoTaskId
    /\ hpc' = "returned"
    /\ UNCHANGED <<task_payload, task_results, task_success>>

NextDaemon ==
    \/ HandleExecuteTask
    \/ PlanReturns
    \/ PlanRaises

(***************************************************************************)
(* Command Executor: workspaces and working directories                    *)
(***************************************************************************)
\* models.py:10-14: WorkspaceType
WorkspaceTypes == {"bare", "docker", "venv"}

\* names of workspaces that plans ask for ("default": executor.py:104)
WorkspaceNames == {"default", "w1"}

NoWorkspace == [name |-> "", type |-> "", path |-> <<>>, oid |-> 0]

\* A path is the sequence of its components below the root; a component and
\* a Command.dir are sequences of characters.
DirChars == {"~", "/", ".", "a"}
Dirs == UNION {[1..k -> DirChars] : k \in 0..MaxDirLen}

\* Path.home(), AgentConfig.workspace_root (config.py:29) and the directory
\* the daemon itself runs in
HomeDir == << <<"home">>, <<"agent">> >>
WorkspaceRoot == HomeDir \o << <<"blackroad">>, <<"workspaces">> >>
DaemonCwd == << <<"opt">>, <<"daemon">> >>

\* the directory docker run -w names, inside the container
ContainerWorkdir == << <<"workspace">> >>

\* str.startswith for one character
StartsWith(chars, c) == chars # <<>> /\ chars[1] = c

\* the components of a path written as chars: the pieces between "/"
RECURSIVE Components(_)
Components(chars) ==
    IF chars = <<>> THEN <<>>
    ELSE IF chars[1] = "/" THEN Components(Tail(chars))
    ELSE LET rest == Components(Tail(chars))
         IN  IF Len(chars) > 1 /\ chars[2] # "/"
             THEN <<(<<chars[1]>> \o rest[1])>> \o Tail(rest)
             ELSE <<(<<chars[1]>>)>> \o rest

\* pathlib: base / chars; an absolute right operand replaces the base
JoinPath(base, chars) ==
    IF StartsWith(chars, "/") THEN Components(chars) ELSE base \o Components(chars)

\* Path.resolve() where no component is a symbolic link: "." is dropped and
\* ".." removes the component before it ("/.." is "/")
RECURSIVE ResolveFrom(_, _)
ResolveFrom(done, todo) ==
    IF todo = <<>> THEN done
    ELSE IF todo[1] = <<".">> THEN ResolveFrom(done, Tail(todo))
    ELSE IF todo[1] = <<".", ".">>
         THEN ResolveFrom(IF done = <<>> THEN <<>> ELSE SubSeq(done, 1, Len(done) - 1),
                          Tail(todo))
    ELSE ResolveFrom(Append(done, todo[1]), Tail(todo))

Resolve(p) == ResolveFrom(<<>>, p)

\* executor.py:174-182: the working directory of a command
WorkDir(workspace, chars) ==
    Resolve(IF StartsWith(chars, "~") THEN JoinPath(HomeDir, SubSeq(chars, 3, Len(chars)))
            ELSE IF StartsWith(chars, "/") THEN Components(chars)
            ELSE JoinPath(workspace.path, chars))

\* executor.py:188-200: which of the three executors runs the command
ExecutorFor(workspace, enabled) ==
    IF workspace.type = "docker" /\ enabled THEN "docker"
    ELSE IF workspace.type = "venv" THEN "venv"
    ELSE "bare"

\* executor.py:225-231, 279-298, 356-358: the subprocess a command runs in:
\* the cwd it is created with (the daemon's own when none is given) and the
\* directory docker is told to use inside the container
Subprocess(workspace, chars, enabled) ==
    LET work_dir == WorkDir(workspace, chars)
        how == ExecutorFor(workspace, enabled)
    IN  [executor |-> how,
         dir |-> chars,
         workspace |-> workspace.name,
         work_dir |-> work_dir,
         cwd |-> IF how = "docker" THEN DaemonCwd ELSE work_dir,
         container_workdir |-> IF how = "docker" THEN ContainerWorkdir ELSE <<>>]

NoSubprocess ==
    [executor |-> "none", dir |-> <<>>, workspace |-> "", work_dir |-> <<>>,
     cwd |-> <<>>, container_workdir |-> <<>>]

\* a lookup that also compares the kind asked for
HasWorkspaceOfKind(known, name, type) ==
    known[name] # NoWorkspace /\ known[name].type = type

\* executor.py:44: name in self._workspaces
HasWorkspace(known, name, type) == known[name] # NoWorkspace

\* executor.py:58-61: whether creation calls an initialiser
Initialises(type, enabled) == (type = "docker" /\ enabled) \/ type = "venv"

\* executor.py:47-55: the Workspace object a creation constructs
Created(name, type, oid) ==
    [name |-> name, type |-> type, path |-> WorkspaceRoot \o << <<name>> >>, oid |-> oid]

WorkspacesStart ==
    /\ workspaces = [n \in WorkspaceNames |-> NoWorkspace]
    /\ docker_enabled \in BOOLEAN
    /\ ws_made = 0
    /\ ws_init_calls = [n \in WorkspaceNames |-> 0]
    /\ ws_asked = [name |-> "", type |-> ""]
    /\ ws_returned = NoWorkspace
    /\ ws_spawn = NoSubprocess

\* executor.py:38-65: get_or_create_workspace(name, workspace_type)
GetOrCreateWorkspace ==
    /\ UNCHANGED outsideWorkspaces
    /\ \E name \in WorkspaceNames, type \in WorkspaceTypes :
        /\ ws_asked' = [name |-> name, type |-> type]
        /\ IF HasWorkspace(workspaces, name, type)
           THEN /\ ws_returned' = workspaces[name]
                /\ UNCHANGED <<workspaces, ws_made, ws_init_calls>>
           ELSE LET workspace == Created(name, type, ws_made + 1)
                IN  /\ ws_made' = ws_made + 1
                    /\ ws_init_calls' =
                         IF Initialises(type, docker_enabled)
                         THEN [ws_init_calls EXCEPT ![name] = @ + 1]
                         ELSE ws_init_calls
                    /\ workspaces' = [workspaces EXCEPT ![name] = workspace]
                    /\ ws_returned' = workspace
    /\ UNCHANGED <<docker_enabled, ws_spawn>>

\* executor.py:154-200: execute_command creates the subprocess of a command
\* in a workspace that exists
ExecuteCommand ==
    /\ UNCHANGED outsideWorkspaces
    /\ \E name \in WorkspaceNames, chars \in Dirs :
        /\ workspaces[name] # NoWorkspace
        /\ ws_spawn' = Subprocess(workspaces[name], chars, docker_enabled)
    /\ UNCHANGED <<workspaces, docker_enabled, ws_made, ws_init_calls, ws_asked, ws_returned>>

NextWorkspaces == GetOrCreateWorkspace

\* executor.py:38-65: every name has been asked for once, "default" first, each
\* with a type of its own
CommandDirStart ==
    /\ docker_enabled \in BOOLEAN
    /\ \E types \in [WorkspaceNames -> WorkspaceTypes] :
        /\ workspaces = [n \in WorkspaceNames |->
                            Created(n, types[n], IF n = "default" THEN 1 ELSE 2)]
        /\ ws_init_calls = [n \in WorkspaceNames |->
                               IF Initialises(types[n], docker_enabled) THEN 1 ELSE 0]
        /\ ws_asked = [name |-> "w1", type |-> types["w1"]]
    /\ ws_made = 2
    /\ ws_returned = workspaces["w1"]
    /\ ws_spawn = NoSubprocess

NextCommandDir == ExecuteCommand

(***************************************************************************)
(* Job Queue Consumer: worker startup                                      *)
(***************************************************************************)
Starters == 1..MaxStarters

\* runner.py:27: WorkerConfig.consumer_group, and a group of another name
ConsumerGroup == "workers"
GroupNames == {ConsumerGroup, "other"}

\* the outcome of a Redis call: the class of the exception raised ("none" when
\* the call returned) and the words of its message
NoError == [cls |-> "none", text |-> <<>>]
BusyGroup ==
    [cls |-> "ResponseError",
     text |-> <<"BUSYGROUP", "Consumer", "Group", "name", "already", "exists">>]
WrongType ==
    [cls |-> "ResponseError",
     text |-> <<"WRONGTYPE", "Operation", "against", "a", "key", "holding", "the",
                "wrong", "kind", "of", "value">>]
ConnectionLost == [cls |-> "ConnectionError", text |-> <<"Connection", "closed", "by", "server">>]

\* "word" in str(e)
Contains(text, word) == \E k \in 1..Len(text) : text[k] = word

\* an except clause that swallows every ResponseError
IgnoredAnyResponseError(e) == e.cls = "ResponseError"

\* runner.py:105-107: the exceptions _ensure_consumer_group catches and drops
Ignored(e) == e.cls = "ResponseError" /\ Contains(e.text, "BUSYGROUP")

\* Redis, XGROUP CREATE key group 0 MKSTREAM: the reply for the key and groups as they are
XGroupCreateReply(kind, groups, group) ==
    IF kind = "string" THEN WrongType
    ELSE IF kind = "stream" /\ groups[group] > 0 THEN BusyGroup
    ELSE NoError

StartupStart ==
    /\ key_kind \in {"absent", "stream", "string"}
    /\ group_count \in [GroupNames -> {0, 1}]
    /\ key_kind # "stream" => group_count = [g \in GroupNames |-> 0]
    /\ spc = [sw \in Starters |-> "idle"]
    /\ xreply = [sw \in Starters |-> NoError]
    /\ start_error = [sw \in Starters |-> NoError]

\* runner.py:66-75: start() is called and reaches _ensure_consumer_group
StartWorker(sw) ==
    /\ UNCHANGED outsideStartup
    /\ spc[sw] = "idle"
    /\ spc' = [spc EXCEPT ![sw] = "creating"]
    /\ UNCHANGED <<key_kind, group_count, xreply, start_error>>

\* runner.py:97-103: the xgroup_create call reaches Redis, which creates the
\* stream and the group or replies with an error; or the connection is lost
XGroupCreate(sw) ==
    /\ UNCHANGED outsideStartup
    /\ spc[sw] = "creating"
    /\ spc' = [spc EXCEPT ![sw] = "replied"]
    /\ \/ /\ xreply' = [xreply EXCEPT ![sw] = ConnectionLost]
          /\ UNCHANGED <<key_kind, group_count>>
       \/ LET reply == XGroupCreateReply(key_kind, group_count, ConsumerGroup)
          IN  /\ xreply' = [xreply EXCEPT ![sw] = reply]
              /\ IF reply = NoError
                 THEN /\ key_kind' = "stream"
                      /\ group_count' = [group_count EXCEPT ![ConsumerGroup] = @ + 1]
                 ELSE UNCHANGED <<key_kind, group_count>>
    /\ UNCHANGED start_error

\* runner.py:96-107, 75-82: _ensure_consumer_group returns after a created
\* group or an ignored error and start() goes on to its loop; any other
\* exception leaves start()
EnsureReturns(sw) ==
    /\ UNCHANGED outsideStartup
    /\ spc[sw] = "replied"
    /\ IF xreply[sw] = NoError \/ Ignored(xreply[sw])
       THEN /\ spc' = [spc EXCEPT ![sw] = "looping"]
            /\ UNCHANGED start_error
       ELSE /\ spc' = [spc EXCEPT ![sw] = "raised"]
            /\ start_error' = [start_error EXCEPT ![sw] = xreply[sw]]
    /\ UNCHANGED <<key_kind, group_count, xreply>>

NextStartup ==
    \E sw \in Starters :
        \/ StartWorker(sw)
        \/ XGroupCreate(sw)
        \/ EnsureReturns(sw)

(***************************************************************************)
(* Policy Steward agent                                                    *)
(***************************************************************************)
\* A Python value is written as its literal; Absent marks a key the document
\* does not have.
Absent == "<absent>"
SummaryValues == {Absent, "None", "''", "'Update DPA'"}
ClassificationValues == {Absent, "None", "'sensitive'", "'Sensitive'", "'public'"}
ContractualValues == {Absent, "None", "True", "False", "0", "1", "''", "'yes'", "[]"}
NotesValues == {Absent, "['check DPA']"}

ChangeDocs ==
    [summary : SummaryValues, data_classification : ClassificationValues,
     contractual : ContractualValues, notes : NotesValues]

\* dict.get(key) or default: the default also replaces a falsy value
GetOrDefault(doc, key, default) ==
    IF doc[key] \in {Absent, "None", "False", "0", "''", "[]"} THEN default ELSE doc[key]

\* dict.get(key, default)
Get(doc, key, default) == IF doc[key] = Absent THEN default ELSE doc[key]

\* a test that only the value True passes
IsTrue(v) == v = "True"

\* org-policy-steward-01.py:19: the truth value of a Python value
Truthy(v) == v \notin {"None", "False", "0", "''", "[]"}

\* org-policy-steward-01.py:5-11
review_change(doc) ==
    [change_summary |-> Get(doc, "summary", "'No summary provided'"),
     requires_signoff |-> "True",
     notes |-> Get(doc, "notes", "[]")]

\* org-policy-steward-01.py:14-21
flag_risks(doc) ==
    (IF Get(doc, "data_classification", "None") = "'sensitive'"
     THEN <<[type |-> "data", severity |-> "high"]>> ELSE <<>>)
    \o (IF Truthy(Get(doc, "contractual", "None"))
        THEN <<[type |-> "contract", severity |-> "medium"]>> ELSE <<>>)

NoReview == [change_summary |-> Absent, requires_signoff |-> Absent, notes |-> Absent]

StewardStart ==
    /\ change_doc \in ChangeDocs
    /\ steward_calls = {}
    /\ review_out = NoReview
    /\ risks_out = <<>>

\* a caller asks for the review of the document
ReviewChange ==
    /\ UNCHANGED outsideSteward
    /\ review_out' = review_change(change_doc)
    /\ steward_calls' = steward_calls \cup {"review_change"}
    /\ UNCHANGED <<change_doc, risks_out>>

\* a caller asks for the risks of the document
FlagRisks ==
    /\ UNCHANGED outsideSteward
    /\ risks_out' = flag_risks(change_doc)
    /\ steward_calls' = steward_calls \cup {"flag_risks"}
    /\ UNCHANGED <<change_doc, review_out>>

NextSteward ==
    \/ ReviewChange
    \/ FlagRisks

(***************************************************************************)
(* Agent Daemon on its channel: connection, heartbeat and task handler     *)
(***************************************************************************)
\* the id of the task the controller sends
TheTask == "t1"

\* inbound messages: execute_task with a usable payload, execute_task the
\* handler returns from at once (main.py:94-96), and the types without a
\* registered handler
InboundTypes == {"execute_task", "execute_task_invalid", "registered", "ping", "error", "unknown"}

\* a receive loop that starts the handler as a task of its own
HandlerSpawned == FALSE

\* connection.py:88-89, 152: the receive loop awaits _handle_message, which
\* awaits the handler
HandlerAwaited == TRUE

\* a heartbeat task that exists before the registration is sent
BeatOnOpenEarly == "waiting"

\* connection.py:77-84: the heartbeat task when the channel has just been
\* opened: the previous one was awaited, the next is created after _register
BeatOnOpen == "none"

\* a _handle_message that answers every built-in type
RepliesToAll(type) == IF type \in {"registered", "ping", "error"} THEN <<"pong">> ELSE <<>>

\* connection.py:153-160: what _handle_message sends for a type that has no
\* registered handler
RepliesTo(type) == IF type = "ping" THEN <<"pong">> ELSE <<>>

\* a handler without the finally clause
TaskAfterHandlerNoFinally(task) == task

\* main.py:156-158: connection._current_task_id after the handler's finally clause
TaskAfterHandler(task) == NoTaskId

\* an output callback that keeps the line for later
LogLineBuffered(log, index) == log

\* main.py:107-113, executor.py:236-244: the line is sent as task_output when read
LogLine(log, index) == Append(log, [type |-> "task_output", index |-> index])

\* connection.py:48-62: the first message handed to the channel stays the first
FirstOut(first, type) == IF first = "none" THEN type ELSE first

NoBeat == [task |-> NoTaskId, at |-> "none"]

SessionStart ==
    /\ wire = "none"
    /\ sock = FALSE
    /\ loop_pc = "connecting"
    /\ beat = "none"
    /\ task_pc = "idle"
    /\ conn_task = NoTaskId
    /\ plan_size = 0
    /\ cmd_idx = 0
    /\ cmd_lines = 0
    /\ active_plans = 0
    /\ task_log = <<>>
    /\ first_out = "none"
    /\ last_in = "none"
    /\ pongs = <<>>
    /\ beat_report = NoBeat

\* connection.py:72-78: websockets.connect succeeds and the handle is set
Open ==
    /\ UNCHANGED outsideSession
    /\ loop_pc = "connecting"
    /\ wire' = "open"
    /\ sock' = TRUE
    /\ loop_pc' = "registering"
    /\ beat' = BeatOnOpen
    /\ first_out' = "none"
    /\ last_in' = "none"
    /\ pongs' = <<>>
    /\ UNCHANGED <<task_pc, conn_task, plan_size, cmd_idx, cmd_lines, active_plans,
                   task_log, beat_report>>

\* connection.py:72-76, 99-106: websockets.connect raises; connect sleeps
OpenFails ==
    /\ UNCHANGED outsideSession
    /\ loop_pc = "connecting"
    /\ loop_pc' = "sleeping"
    /\ UNCHANGED <<wire, sock, beat, task_pc, conn_task, plan_size, cmd_idx, cmd_lines,
                   active_plans, task_log, first_out, last_in, pongs, beat_report>>

\* connection.py:80-84, 114-125: the registration is sent, then the heartbeat
\* task is created
SendRegister ==
    /\ UNCHANGED outsideSession
    /\ loop_pc = "registering"
    /\ first_out' = FirstOut(first_out, "register")
    /\ beat' = "waiting"
    /\ loop_pc' = "receiving"
    /\ UNCHANGED <<wire, sock, task_pc, conn_task, plan_size, cmd_idx, cmd_lines,
                   active_plans, task_log, last_in, pongs, beat_report>>

\* the controller closes the channel or the network drops it
Drop ==
    /\ UNCHANGED outsideSession
    /\ wire = "open"
    /\ wire' = "closed"
    /\ UNCHANGED <<sock, loop_pc, beat, task_pc, conn_task, plan_size, cmd_idx, cmd_lines,
                   active_plans, task_log, first_out, last_in, pongs, beat_report>>

\* connection.py:88-89, 141-160, main.py:87-104: the receive loop gets a
\* message and dispatches it. A built-in type is answered at once; an
\* execute_task with a usable payload sets the current task and enters
\* execute_plan
Dispatched ==
    /\ UNCHANGED outsideSession
    /\ loop_pc = "receiving"
    /\ wire = "open"
    /\ task_pc = "idle" \/ ~HandlerAwaited
    /\ \E type \in InboundTypes, size \in 0..MaxCmds :
        /\ last_in' = type
        /\ IF type = "execute_task"
           THEN /\ pongs' = <<>>
                /\ active_plans' = Min(active_plans + 1, 2)
                /\ UNCHANGED first_out
                /\ IF task_pc = "idle"
                   THEN /\ task_pc' = "running"
                        /\ conn_task' = TheTask
                        /\ plan_size' = size
                        /\ cmd_idx' = 0
                        /\ cmd_lines' = 0
                        /\ task_log' = <<>>
                   ELSE UNCHANGED <<task_pc, conn_task, plan_size, cmd_idx, cmd_lines,
                                    task_log>>
           ELSE /\ size = 0
                /\ pongs' = IF sock /\ type \in {"registered", "ping", "error"}
                            THEN RepliesTo(type) ELSE <<>>
                /\ first_out' = IF pongs' # <<>> THEN FirstOut(first_out, pongs'[1])
                                ELSE first_out
                /\ UNCHANGED <<task_pc, conn_task, plan_size, cmd_idx, cmd_lines,
                               active_plans, task_log>>
    /\ UNCHANGED <<wire, sock, loop_pc, beat, beat_report>>

\* executor.py:236-244, main.py:107-113: the running command writes a line,
\* read_stream reads it and the output callback sends it
OutputRelayed ==
    /\ UNCHANGED outsideSession
    /\ task_pc = "running"
    /\ cmd_idx < plan_size
    /\ cmd_lines < MaxLines
    /\ cmd_lines' = cmd_lines + 1
    /\ task_log' = LogLine(task_log, cmd_idx)
    /\ first_out' = IF task_log' # task_log THEN FirstOut(first_out, "task_output")
                    ELSE first_out
    /\ UNCHANGED <<wire, sock, loop_pc, beat, task_pc, conn_task, plan_size, cmd_idx,
                   active_plans, last_in, pongs, beat_report>>

\* executor.py:246-263, 123-145, main.py:115-122: the command's pipes close
\* and the child is reaped; the result callback sends command_result; the
\* plan goes on to the next command or stops after a failed one
CommandEnds ==
    /\ UNCHANGED outsideSession
    /\ task_pc = "running"
    /\ cmd_idx < plan_size
    /\ \E halts \in BOOLEAN :
        cmd_idx' = IF halts THEN plan_size ELSE cmd_idx + 1
    /\ cmd_lines' = 0
    /\ task_log' = Append(task_log, [type |-> "command_result", index |-> cmd_idx])
    /\ first_out' = FirstOut(first_out, "command_result")
    /\ UNCHANGED <<wire, sock, loop_pc, beat, task_pc, conn_task, plan_size,
                   active_plans, last_in, pongs, beat_report>>

\* main.py:124-154: task_complete is sent when execute_plan has ended
PlanEnds ==
    /\ task_pc' = "completing"
    /\ active_plans' = active_plans - 1
    /\ task_log' = Append(task_log, [type |-> "task_complete", index |-> cmd_idx])
    /\ first_out' = FirstOut(first_out, "task_complete")
    /\ UNCHANGED <<wire, sock, loop_pc, beat, conn_task, plan_size, cmd_idx, cmd_lines,
                   last_in, pongs, beat_report>>

\* main.py:124-145: execute_plan returns after its last command
PlanCompletes ==
    /\ UNCHANGED outsideSession
    /\ task_pc = "running"
    /\ cmd_idx = plan_size
    /\ PlanEnds

\* main.py:104, 124-129, 147-154: TaskPlan or WorkspaceType rejects the plan,
\* or a subprocess cannot be created: the except clause is entered
TaskRaises ==
    /\ UNCHANGED outsideSession
    /\ task_pc = "running"
    /\ PlanEnds

\* main.py:156-158, connection.py:88-89: the finally clause clears the current
\* task, the handler returns and the receive loop goes on
HandlerEnds ==
    /\ UNCHANGED outsideSession
    /\ task_pc = "completing"
    /\ task_pc' = "idle"
    /\ conn_task' = TaskAfterHandler(conn_task)
    /\ UNCHANGED <<wire, sock, loop_pc, beat, plan_size, cmd_idx, cmd_lines, active_plans,
                   task_log, first_out, last_in, pongs, beat_report>>

\* connection.py:127-137: the heartbeat task's sleep is over and it sends a
\* heartbeat carrying _current_task_id
Heartbeat ==
    /\ UNCHANGED outsideSession
    /\ beat = "waiting"
    /\ sock
    /\ beat_report' = [task |-> conn_task, at |-> task_pc]
    /\ first_out' = FirstOut(first_out, "heartbeat")
    /\ UNCHANGED <<wire, sock, loop_pc, beat, task_pc, conn_task, plan_size, cmd_idx,
                   cmd_lines, active_plans, task_log, last_in, pongs>>

\* connection.py:88-91: the iteration over the closed channel ends once the
\* loop is not inside _handle_message, and the heartbeat task is cancelled
LoopExits ==
    /\ UNCHANGED outsideSession
    /\ loop_pc = "receiving"
    /\ wire = "closed"
    /\ task_pc = "idle" \/ ~HandlerAwaited
    /\ loop_pc' = "cancelling"
    /\ beat' = "cancel_requested"
    /\ UNCHANGED <<wire, sock, task_pc, conn_task, plan_size, cmd_idx, cmd_lines,
                   active_plans, task_log, first_out, last_in, pongs, beat_report>>

\* connection.py:92-95, 127-130: the cancelled heartbeat task finishes
BeatSettles ==
    /\ UNCHANGED outsideSession
    /\ beat = "cancel_requested"
    /\ beat' = "none"
    /\ UNCHANGED <<wire, sock, loop_pc, task_pc, conn_task, plan_size, cmd_idx, cmd_lines,
                   active_plans, task_log, first_out, last_in, pongs, beat_report>>

\* connection.py:93-106: await heartbeat_task returns, the handle is cleared
\* and connect sleeps
HandleCleared ==
    /\ UNCHANGED outsideSession
    /\ loop_pc = "cancelling"
    /\ beat = "none"
    /\ sock' = FALSE
    /\ wire' = "none"
    /\ loop_pc' = "sleeping"
    /\ UNCHANGED <<beat, task_pc, conn_task, plan_size, cmd_idx, cmd_lines, active_plans,
                   task_log, first_out, last_in, pongs, beat_report>>

\* connection.py:104-106, 68-72: the sleep is over and the next attempt starts
Reconnect ==
    /\ UNCHANGED outsideSession
    /\ loop_pc = "sleeping"
    /\ loop_pc' = "connecting"
    /\ UNCHANGED <<wire, sock, beat, task_pc, conn_task, plan_size, cmd_idx, cmd_lines,
                   active_plans, task_log, first_out, last_in, pongs, beat_report>>

\* the steps connect() and the handler take by themselves
AgentStep ==
    \/ Open
    \/ OpenFails
    \/ SendRegister
    \/ PlanCompletes
    \/ HandlerEnds
    \/ LoopExits
    \/ BeatSettles
    \/ HandleCleared
    \/ Reconnect

NextSession ==
    \/ AgentStep
    \/ Drop
    \/ Dispatched
    \/ OutputRelayed
    \/ CommandEnds
    \/ TaskRaises
    \/ Heartbeat

(***************************************************************************)
(* Worker loop: start() and stop()                                         *)
(***************************************************************************)
\* iterations one run of the loop is followed for
MaxIterations == 3

\* a _claim_stuck_messages without its except clause
AfterClaimUncaught(fails) == IF fails THEN "raised" ELSE "reading"

\* runner.py:112-115, 132, 151-152: _claim_stuck_messages logs what the scan
\* raises and returns, and _process_batch goes on to xreadgroup
AfterClaim(fails) == "reading"

\* runner.py:66-81: start() has set _running, ensured the group and installed
\* the signal handlers
LoopStart ==
    /\ w_running = TRUE
    /\ w_pc = "check"
    /\ iterations = 0
    /\ scan_failed = FALSE
    /\ read_done = FALSE
    /\ batch_left = 0
    /\ escaped = 0
    /\ errors_logged = 0
    /\ stop_called = FALSE
    /\ stopped_at = 0

\* runner.py:83-85, 109-112: _running is true and _process_batch is called
IterationBegins ==
    /\ UNCHANGED outsideLoop
    /\ w_pc = "check"
    /\ w_running
    /\ iterations < MaxIterations
    /\ iterations' = iterations + 1
    /\ w_pc' = "claiming"
    /\ scan_failed' = FALSE
    /\ read_done' = FALSE
    /\ batch_left' = 0
    /\ UNCHANGED <<w_running, escaped, errors_logged, stop_called, stopped_at>>

\* runner.py:83: _running is false and start() returns
StartReturns ==
    /\ UNCHANGED outsideLoop
    /\ w_pc = "check"
    /\ ~w_running
    /\ w_pc' = "returned"
    /\ UNCHANGED <<w_running, iterations, scan_failed, read_done, batch_left, escaped,
                   errors_logged, stop_called, stopped_at>>

\* runner.py:130-152: the scan of the pending list and its claims, which may raise
ClaimStuck ==
    /\ UNCHANGED outsideLoop
    /\ w_pc = "claiming"
    /\ \E fails \in BOOLEAN :
        /\ scan_failed' = fails
        /\ w_pc' = AfterClaim(fails)
        /\ escaped' = IF w_pc' = "raised" THEN escaped + 1 ELSE escaped
    /\ UNCHANGED <<w_running, iterations, read_done, batch_left, errors_logged,
                   stop_called, stopped_at>>

\* runner.py:115-124: xreadgroup raises, returns nothing, or returns messages
ReadNew ==
    /\ UNCHANGED outsideLoop
    /\ w_pc = "reading"
    /\ read_done' = TRUE
    /\ \E raises \in BOOLEAN, n \in 0..NMsgs :
        IF raises
        THEN /\ n = 0
             /\ w_pc' = "raised"
             /\ escaped' = escaped + 1
             /\ UNCHANGED batch_left
        ELSE /\ w_pc' = IF n = 0 THEN "check" ELSE "processing"
             /\ batch_left' = n
             /\ UNCHANGED escaped
    /\ UNCHANGED <<w_running, iterations, scan_failed, errors_logged, stop_called,
                   stopped_at>>

\* runner.py:126-128, 209-215: _process_message for the next message of the
\* reply; a store or stream error in its except or finally clause escapes
ProcessOne ==
    /\ UNCHANGED outsideLoop
    /\ w_pc = "processing"
    /\ \E raises \in BOOLEAN :
        IF raises
        THEN /\ w_pc' = "raised"
             /\ escaped' = escaped + 1
             /\ UNCHANGED batch_left
        ELSE /\ batch_left' = batch_left - 1
             /\ w_pc' = IF batch_left = 1 THEN "check" ELSE "processing"
             /\ UNCHANGED escaped
    /\ UNCHANGED <<w_running, iterations, scan_failed, read_done, errors_logged,
                   stop_called, stopped_at>>

\* runner.py:86-88: start() catches the exception, logs it and sleeps
Caught ==
    /\ UNCHANGED outsideLoop
    /\ w_pc = "raised"
    /\ errors_logged' = errors_logged + 1
    /\ w_pc' = "sleeping"
    /\ UNCHANGED <<w_running, iterations, scan_failed, read_done, batch_left, escaped,
                   stop_called, stopped_at>>

\* runner.py:88, 83: the pause of one second is over
SleepEnds ==
    /\ UNCHANGED outsideLoop
    /\ w_pc = "sleeping"
    /\ w_pc' = "check"
    /\ UNCHANGED <<w_running, iterations, scan_failed, read_done, batch_left, escaped,
                   errors_logged, stop_called, stopped_at>>

\* runner.py:78-81, 90-93: a signal or a caller runs stop() while start() is
\* at one of its awaits or about to test _running
Stop ==
    /\ UNCHANGED outsideLoop
    /\ w_pc # "returned"
    /\ ~stop_called
    /\ w_running' = FALSE
    /\ stop_called' = TRUE
    /\ stopped_at' = iterations
    /\ UNCHANGED <<w_pc, iterations, scan_failed, read_done, batch_left, escaped,
                   errors_logged>>

NextLoop ==
    \/ IterationBegins
    \/ StartReturns
    \/ ClaimStuck
    \/ ReadNew
    \/ ProcessOne
    \/ Caught
    \/ SleepEnds
    \/ Stop

(***************************************************************************)
(* Specifications                                                          *)
(***************************************************************************)
\* the worker half at rest, for the executor's specification
WorkerAtRest ==
    /\ msgJob = [m \in Msgs |-> NoJobId]
    /\ last_delivered = 0
    /\ pel = [m \in Msgs |-> NotPending]
    /\ wpc = [c \in Consumers |-> "poll"]
    /\ batch = [c \in Consumers |-> <<>>]
    /\ jobs = [j \in JobRows |-> [status |-> "queued", error |-> "", output |-> "", retry_count |-> 0]]
    /\ job_events = [j \in JobRows |-> <<>>]
    /\ roadchain = [j \in JobRows |-> <<>>]
    /\ acks = [m \in Msgs |-> 0]
    /\ dispatches = [m \in Msgs |-> 0]
    /\ executed = [m \in Msgs |-> "none"]
    /\ effects = [m \in Msgs |-> <<>>]

\* the dispatcher not called
DispatchAtRest ==
    /\ manifest = [runtime_type |-> "absent", settings |-> "missing"]
    /\ input_ok = TRUE
    /\ dpc = "idle"
    /\ exec_ms = 0
    /\ thrown = NoException
    /\ exec_result = NoResult

\* the connection manager constructed and connect() not called
ConnAtRest == ConnStart

\* no message at hand
StoreAtRest ==
    /\ job_row = [status |-> "queued", error |-> ""]
    /\ row_events = <<>>
    /\ audit_rows = 0
    /\ ppc = "done"
    /\ attempt = MaxAttempts
    /\ exec_outcome = "none"
    /\ caught = "none"
    /\ failedAt = "none"
    /\ propagating = FALSE
    /\ acked = FALSE
    /\ raised_out = FALSE

\* the agent daemon's task handler at rest
DaemonAtRest ==
    /\ task_payload = [task_id |-> NoTaskId, plan |-> "missing", ncmds |-> 0]
    /\ hpc = "idle"
    /\ task_outcome = "none"
    /\ task_results = <<>>
    /\ task_success = FALSE
    /\ task_sent = <<>>
    /\ current_task_id = NoTaskId

\* the executor's workspaces at rest
WorkspacesAtRest ==
    /\ workspaces = [n \in WorkspaceNames |-> NoWorkspace]
    /\ docker_enabled = TRUE
    /\ ws_made = 0
    /\ ws_init_calls = [n \in WorkspaceNames |-> 0]
    /\ ws_asked = [name |-> "", type |-> ""]
    /\ ws_returned = NoWorkspace
    /\ ws_spawn = NoSubprocess

\* no worker started
StartupAtRest ==
    /\ key_kind = "absent"
    /\ group_count = [g \in GroupNames |-> 0]
    /\ spc = [sw \in Starters |-> "idle"]
    /\ xreply = [sw \in Starters |-> NoError]
    /\ start_error = [sw \in Starters |-> NoError]

\* the Policy Steward not called
StewardAtRest ==
    /\ change_doc = [summary |-> Absent, data_classification |-> Absent,
                     contractual |-> Absent, notes |-> Absent]
    /\ steward_calls = {}
    /\ review_out = NoReview
    /\ risks_out = <<>>

\* the agent's session not started
SessionAtRest ==
    /\ wire = "none"
    /\ sock = FALSE
    /\ loop_pc = "connecting"
    /\ beat = "none"
    /\ task_pc = "idle"
    /\ conn_task = NoTaskId
    /\ plan_size = 0
    /\ cmd_idx = 0
    /\ cmd_lines = 0
    /\ active_plans = 0
    /\ task_log = <<>>
    /\ first_out = "none"
    /\ last_in = "none"
    /\ pongs = <<>>
    /\ beat_report = NoBeat

\* the worker's loop not started
LoopAtRest ==
    /\ w_running = FALSE
    /\ w_pc = "returned"
    /\ iterations = 0
    /\ scan_failed = FALSE
    /\ read_done = FALSE
    /\ batch_left = 0
    /\ escaped = 0
    /\ errors_logged = 0
    /\ stop_called = FALSE
    /\ stopped_at = 0

\* the executor half at rest, for the worker's specifications
ExecAtRest ==
    /\ plan = <<>>
    /\ workspace_status = "absent"
    /\ pc = "idle"
    /\ i = 0
    /\ results = <<>>
    /\ success = TRUE
    /\ startLog = <<>>
    /\ proc = NoProc
    /\ elapsed = 0
    /\ waited = 0
    /\ lines = 0
    /\ callbackLog = <<>>

InitExec == ExecStart /\ WorkerAtRest /\ DispatchAtRest /\ ConnAtRest /\ StoreAtRest /\ DaemonAtRest /\ WorkspacesAtRest /\ StartupAtRest /\ StewardAtRest /\ SessionAtRest /\ LoopAtRest

InitWorker == WorkerStart /\ ExecAtRest /\ DispatchAtRest /\ ConnAtRest /\ StoreAtRest /\ DaemonAtRest /\ WorkspacesAtRest /\ StartupAtRest /\ StewardAtRest /\ SessionAtRest /\ LoopAtRest

InitDispatch == DispatchStart /\ ExecAtRest /\ WorkerAtRest /\ ConnAtRest /\ StoreAtRest /\ DaemonAtRest /\ WorkspacesAtRest /\ StartupAtRest /\ StewardAtRest /\ SessionAtRest /\ LoopAtRest

InitConn == ConnStart /\ ExecAtRest /\ WorkerAtRest /\ DispatchAtRest /\ StoreAtRest /\ DaemonAtRest /\ WorkspacesAtRest /\ StartupAtRest /\ StewardAtRest /\ SessionAtRest /\ LoopAtRest

InitStore == StoreStart /\ ConnAtRest /\ DispatchAtRest /\ ExecAtRest /\ WorkerAtRest /\ DaemonAtRest /\ WorkspacesAtRest /\ StartupAtRest /\ StewardAtRest /\ SessionAtRest /\ LoopAtRest

InitDaemon == DaemonStart /\ ConnAtRest /\ DispatchAtRest /\ ExecAtRest /\ StoreAtRest /\ WorkerAtRest /\ WorkspacesAtRest /\ StartupAtRest /\ StewardAtRest /\ SessionAtRest /\ LoopAtRest

InitWorkspaces == WorkspacesStart /\ ConnAtRest /\ DaemonAtRest /\ DispatchAtRest /\ ExecAtRest /\ StoreAtRest /\ WorkerAtRest /\ StartupAtRest /\ StewardAtRest /\ SessionAtRest /\ LoopAtRest

InitCommandDir == CommandDirStart /\ ConnAtRest /\ DaemonAtRest /\ DispatchAtRest /\ ExecAtRest /\ StoreAtRest /\ WorkerAtRest /\ StartupAtRest /\ StewardAtRest /\ SessionAtRest /\ LoopAtRest

InitStartup == StartupStart /\ ConnAtRest /\ DaemonAtRest /\ DispatchAtRest /\ ExecAtRest /\ StoreAtRest /\ WorkerAtRest /\ WorkspacesAtRest /\ StewardAtRest /\ SessionAtRest /\ LoopAtRest

InitSteward == StewardStart /\ ConnAtRest /\ DaemonAtRest /\ DispatchAtRest /\ ExecAtRest /\ StartupAtRest /\ StoreAtRest /\ WorkerAtRest /\ WorkspacesAtRest /\ SessionAtRest /\ LoopAtRest

InitSession == SessionStart /\ ConnAtRest /\ DaemonAtRest /\ DispatchAtRest /\ ExecAtRest /\ StartupAtRest /\ StewardAtRest /\ StoreAtRest /\ WorkerAtRest /\ WorkspacesAtRest /\ LoopAtRest

InitLoop == LoopStart /\ ConnAtRest /\ DaemonAtRest /\ DispatchAtRest /\ ExecAtRest /\ SessionAtRest /\ StartupAtRest /\ StewardAtRest /\ StoreAtRest /\ WorkerAtRest /\ WorkspacesAtRest

SpecExec == InitExec /\ [][NextExec]_vars

SpecWorker == InitWorker /\ [][NextWorker]_vars

SpecDispatch == InitDispatch /\ [][NextDispatch]_vars

SpecConn == InitConn /\ [][NextConnection]_vars

SpecLoop == InitLoop /\ [][NextLoop]_vars

SpecSession == InitSession /\ [][NextSession]_vars

\* connect(), the handler and the heartbeat task keep taking their steps;
\* nothing makes a child process write or end
FairSpecSession ==
    /\ SpecSession
    /\ WF_vars(AgentStep)
    /\ WF_vars(Heartbeat)

SpecSteward == InitSteward /\ [][NextSteward]_vars

SpecStartup == InitStartup /\ [][NextStartup]_vars

SpecWorkspaces == InitWorkspaces /\ [][NextWorkspaces]_vars

SpecCommandDir == InitCommandDir /\ [][NextCommandDir]_vars

SpecDaemon == InitDaemon /\ [][NextDaemon]_vars

SpecStore == InitStore /\ [][NextStore]_vars

\* connect() and the heartbeat task keep running when they can, each
\* connection attempt ends, every handler returns, and time keeps passing;
\* nothing is assumed of the controller, of the callers of send, or of
\* disconnect
FairSpecConn ==
    /\ SpecConn
    /\ WF_vars(ConnectStep)
    /\ WF_vars(HeartbeatStep)
    /\ WF_vars(ConnTick)

\* every worker that has not crashed keeps taking steps, and time keeps passing
FairSpecWorker ==
    /\ SpecWorker
    /\ \A c \in Consumers : WF_vars(WorkerStep(c))
    /\ WF_vars(Clock)

(***************************************************************************)
(* Properties of the Command / Plan Executor                               *)
(***************************************************************************)
\* result k (1-based position in results) is a failure its command does not tolerate
HaltsAt(k) == results[k].exit_code # 0 /\ ~plan[k].continue_on_error

\* C1: commands are spawned strictly in list order and one at a time; once a
\* command ended with a non-zero exit code (the timeout code -1 included)
\* and continue_on_error false, it is the last command spawned and the last
\* result, the results are those of commands 0..k in order, execute_plan
\* is over, and if it returned then success is false.
C1_SequentialHalt ==
    /\ startLog = [k \in 1..Len(startLog) |-> k - 1]
    /\ Len(startLog) <= Len(plan)
    /\ Len(results) <= Len(startLog)
    /\ Len(startLog) <= Len(results) + 1
    /\ (pc \in {"reading", "waiting"}) => Len(startLog) = Len(results) + 1
    /\ \A k \in 1..Len(results) : results[k].command_index = k - 1
    /\ \A k \in 1..Len(results) :
          HaltsAt(k) => /\ Len(results) = k
                        /\ Len(startLog) = k
                        /\ pc \in {"returned", "raised"}
                        /\ (pc = "returned") => (success = FALSE)

\* C1 witness: a plan halted on a timed-out first command, the second never ran
C1_Witness ==
    /\ pc = "returned"
    /\ Len(plan) = 2
    /\ Len(results) = 1
    /\ results[1].exit_code = -1
    /\ results[1].timed_out
    /\ success = FALSE
    /\ startLog = <<0>>

\* C2: when execute_plan has returned, success is false exactly if some
\* result has a non-zero exit code with continue_on_error false; if every
\* failing result's command has continue_on_error true there is one result
\* per command of the plan and success is true; an empty plan returns
\* success true and no results.
C2_SuccessIff ==
    (pc = "returned") =>
        /\ (success = FALSE) <=> (\E k \in 1..Len(results) : HaltsAt(k))
        /\ (\A k \in 1..Len(results) :
                results[k].exit_code # 0 => plan[k].continue_on_error)
              => (Len(results) = Len(plan) /\ success = TRUE)
        /\ (plan = <<>>) => (success = TRUE /\ results = <<>>)

\* C2 witness: a plan whose first command failed under continue_on_error ran to its end
C2_Witness ==
    /\ pc = "returned"
    /\ Len(plan) = 2
    /\ Len(results) = 2
    /\ results[1].exit_code # 0
    /\ plan[1].continue_on_error
    /\ success = TRUE

C4_TimeoutFromStart ==
    /\ (pc \in {"reading", "waiting"} /\ proc.state = "running")
          => elapsed <= command.timeout_seconds
    /\ \A k \in 1..Len(results) :
          results[k].duration > plan[k].timeout_seconds
            => (results[k].exit_code = -1 /\ results[k].timed_out)

\* the sequence 0, 1, ..., n - 1
Indices(n) == [k \in 1..n |-> k - 1]

C20_MinusOneOnlyTimeout ==
    \A k \in 1..Len(results) : results[k].exit_code = -1 => results[k].timed_out

(***************************************************************************)
(* Properties of the Job Queue Consumer                                    *)
(***************************************************************************)
\* _process_message has been entered for m and has returned
Handled(m) ==
    /\ effects[m] # <<>>
    /\ \A c \in Consumers : ~(wpc[c] = "executing" /\ Head(batch[c]) = m)

\* C5: in the step in which executor.execute raises for a message, the
\* job is set to failed with the exception text as its error, a 'failed'
\* event is appended and the message leaves the pending list by its first
\* and only acknowledgement; it is never acknowledged again.
C5_DispatcherRaises ==
    /\ [][\A m \in Msgs :
            (executed[m] = "none" /\ executed'[m] = "raise") =>
                /\ jobs'[msgJob[m]].status = "failed"
                /\ jobs'[msgJob[m]].error = ExcText
                /\ job_events'[msgJob[m]] = Append(job_events[msgJob[m]], "failed")
                /\ acks[m] = 0
                /\ acks'[m] = 1
                /\ pel'[m] = NotPending]_vars
    /\ [](\A m \in Msgs : executed[m] = "raise" => acks[m] = 1)

\* C5 witness: the dispatcher raised for a message, which is acknowledged once
C5_Witness ==
    \E m \in Msgs :
        /\ executed[m] = "raise"
        /\ acks[m] = 1
        /\ jobs[msgJob[m]].status = "failed"
        /\ jobs[msgJob[m]].error = ExcText

\* C6: no message is acknowledged twice, and every message whose
\* _process_message has returned is acknowledged exactly once.
C6_AckExactlyOnce ==
    \A m \in Msgs :
        /\ acks[m] <= 1
        /\ Handled(m) => acks[m] = 1

\* C7: when a consumer polls, every pending entry owned by another consumer
\* whose time since delivery exceeds claim_min_idle_ms is owned by the
\* polling consumer after the poll's claim.
C7_ReclaimOnNextPoll ==
    [][\A c \in Consumers :
          Poll(c) =>
            \A m \in Msgs :
                (pel[m].owner \notin {NoOwner, c} /\ pel[m].idle > claim_min_idle_ms)
                    => pel'[m].owner = c]_vars

\* C8: with at least one worker polling for ever, every message that is
\* pending is eventually acknowledged and leaves the pending-entries list.
C8_EventuallyDrained ==
    \A m \in Msgs :
        (pel[m].owner # NoOwner) ~> (pel[m].owner = NoOwner /\ acks[m] >= 1)

\* C9: executor.execute is invoked at most once for any stream message,
\* over all consumers, interleavings and reclaims.
C9_AtMostOnce ==
    \A m \in Msgs : dispatches[m] <= 1

\* C9 witness: a message still being executed by its reader was reclaimed by
\* another consumer, which has polled again since
C9_Witness ==
    \E m \in Msgs, c \in Consumers, d \in Consumers :
        /\ wpc[c] = "executing"
        /\ Head(batch[c]) = m
        /\ d # c
        /\ pel[m].owner = d
        /\ pel[m].idle > claim_min_idle_ms
        /\ dispatches[m] = 1

\* the error a job gets whose agent is missing or not active
AgentError(j) == IF j = "j3" THEN "Agent not found" ELSE "Agent is paused"

\* C10: a message whose job's agent is missing (j3) or not active (j2),
\* once processed, has failed the job with the descriptive error and is
\* acknowledged; the job was never marked running, has no 'started' event
\* and no audit-chain entry, the dispatcher was not invoked, and the
\* message was processed once only.
C10_AgentUnavailable ==
    \A m \in Msgs :
        (msgJob[m] \in {"j2", "j3"} /\ effects[m] # <<>>) =>
            /\ CountOp(effects[m], "fail_job") = 1
            /\ effects[m][1] = [op |-> "fail_job", arg |-> AgentError(msgJob[m])]
            /\ jobs[msgJob[m]].status = "failed"
            /\ jobs[msgJob[m]].error = AgentError(msgJob[m])
            /\ acks[m] >= 1
            /\ pel[m] = NotPending
            /\ CountOp(effects[m], "start_job") = 0
            /\ \A k \in 1..Len(job_events[msgJob[m]]) : job_events[msgJob[m]][k] = "failed"
            /\ dispatches[m] = 0
            /\ executed[m] = "none"
            /\ roadchain[msgJob[m]] = <<>>
            /\ \A c \in Consumers : \A k \in 1..Len(batch[c]) : batch[c][k] # m

\* C10 witness: a message for a paused agent and one for a missing agent were processed
C10_Witness ==
    \E m \in Msgs, n \in Msgs :
        /\ msgJob[m] = "j2"
        /\ msgJob[n] = "j3"
        /\ Handled(m)
        /\ Handled(n)

\* C11: a message without a job_id, or whose job_id names no job row, only
\* ever causes acknowledgements: the dispatcher is never invoked for it,
\* once processed it is acknowledged and off the pending list and in no
\* batch, and the step that processes it changes no job row and appends no
\* job event and no audit-chain entry.
C11_DroppedMessage ==
    /\ [](\A m \in Msgs :
            msgJob[m] \in {NoJobId, "j0"} =>
                /\ \A k \in 1..Len(effects[m]) : effects[m][k] = Ack
                /\ dispatches[m] = 0
                /\ executed[m] = "none"
                /\ effects[m] # <<>> =>
                      /\ acks[m] >= 1
                      /\ pel[m] = NotPending
                      /\ \A c \in Consumers :
                            \A k \in 1..Len(batch[c]) : batch[c][k] # m)
    /\ [][\A m \in Msgs :
            (msgJob[m] \in {NoJobId, "j0"} /\ effects'[m] # effects[m]) =>
                /\ jobs' = jobs
                /\ job_events' = job_events
                /\ roadchain' = roadchain
                /\ dispatches' = dispatches]_vars

\* C11 witness: a message without job_id and one naming no job row were processed
C11_Witness ==
    \E m \in Msgs, n \in Msgs :
        /\ msgJob[m] = NoJobId
        /\ msgJob[n] = "j0"
        /\ Handled(m)
        /\ Handled(n)
        /\ acks[m] = 1
        /\ acks[n] = 2

\* the operations of a processed message whose dispatcher returned a result:
\* started, dispatched, terminal status, one audit entry, acknowledged last
FullOrder(ops) ==
    /\ Len(ops) = 5
    /\ ops[1] = StartJob
    /\ ops[2] = Execute
    /\ ops[3].op \in {"complete_job", "fail_job"}
    /\ ops[4] = LogToRoadchain(ops[3].op = "complete_job")
    /\ ops[5] = Ack

\* C12 as stated: every processed message whose job exists and whose agent
\* is active has performed, in this order, the start of the job, the
\* dispatch, the terminal status write, exactly one audit-chain entry and
\* last the acknowledgement.
C12_OrderAlways ==
    \A m \in Msgs : (msgJob[m] = "j1" /\ executed[m] # "none") => FullOrder(effects[m])

\* C12 amended: for a message whose job exists and whose agent is active,
\* the first step marks the job running and appends 'started' without
\* acknowledging; while the dispatcher runs the message is unacknowledged;
\* when the dispatcher returns a result the job gets its terminal status
\* and the matching event, then exactly one audit-chain entry, then the
\* acknowledgement; when the dispatcher raises the job is failed and the
\* message acknowledged with no audit-chain entry. The acknowledgement is
\* always the last operation and follows the terminal status write.
C12_OrderedEffects ==
    /\ [](\A m \in Msgs :
            msgJob[m] = "j1" =>
                /\ (effects[m] # <<>> /\ executed[m] = "none") =>
                      (effects[m] = <<StartJob, Execute>> /\ acks[m] = 0)
                /\ executed[m] \in {"ok", "fail", "fail_none"} => FullOrder(effects[m])
                /\ executed[m] = "raise" =>
                      effects[m] = <<StartJob, Execute, FailJob(ExcText), Ack>>
                /\ executed[m] # "none" => acks[m] = 1)
    /\ [][\A m \in Msgs :
            msgJob[m] = "j1" =>
                /\ (effects[m] = <<>> /\ effects'[m] # <<>>) =>
                      /\ jobs'["j1"].status = "running"
                      /\ job_events'["j1"] = Append(job_events["j1"], "started")
                      /\ roadchain' = roadchain
                      /\ pel'[m] = pel[m]
                /\ (executed[m] = "none" /\ executed'[m] # "none") =>
                      /\ jobs'["j1"].status =
                            IF executed'[m] = "ok" THEN "succeeded" ELSE "failed"
                      /\ job_events'["j1"] = Append(job_events["j1"],
                            IF executed'[m] = "ok" THEN "completed" ELSE "failed")
                      /\ Len(roadchain'["j1"]) = Len(roadchain["j1"])
                            + (IF executed'[m] = "raise" THEN 0 ELSE 1)
                      /\ pel[m].owner # NoOwner
                      /\ pel'[m] = NotPending]_vars

\* C12 witness: one message's dispatcher returned success, another's raised
C12_Witness ==
    \E m \in Msgs, n \in Msgs :
        /\ msgJob[m] = "j1"
        /\ msgJob[n] = "j1"
        /\ Handled(m)
        /\ Handled(n)
        /\ executed[m] = "ok"
        /\ executed[n] = "raise"
        /\ Len(roadchain["j1"]) = 1

\* _process_message has returned for m
Ended(m) == IF msgJob[m] = "j1" THEN executed[m] # "none" ELSE effects[m] # <<>>

\* C24: no job's retry_count ever changes and the stream's messages stay
\* what they were; a message whose processing ended, whatever the outcome,
\* is acknowledged, off the pending list and in no consumer's batch, was
\* dispatched at most once, and no later step performs any operation for it
\* or makes it pending again.
C24_NoRetry ==
    /\ [](/\ \A j \in JobRows : jobs[j].retry_count = 0
          /\ \A m \in Msgs :
                Ended(m) =>
                    /\ acks[m] >= 1
                    /\ pel[m] = NotPending
                    /\ dispatches[m] <= 1
                    /\ \A c \in Consumers :
                          \A k \in 1..Len(batch[c]) : batch[c][k] # m)
    /\ [][/\ msgJob' = msgJob
          /\ \A m \in Msgs :
                Ended(m) => (effects'[m] = effects[m] /\ pel'[m] = NotPending
                             /\ dispatches'[m] = dispatches[m])]_vars

\* C24 witness: one job's dispatcher raised, another's failed, both messages are done
C24_Witness ==
    \E m \in Msgs, n \in Msgs :
        /\ msgJob[m] = "j1"
        /\ msgJob[n] = "j1"
        /\ executed[m] = "raise"
        /\ executed[n] = "fail"
        /\ jobs["j1"].status = "failed"
        /\ pel[m] = NotPending
        /\ pel[n] = NotPending

\* the messages of a job that exists and whose agent is active
Runnable == {m \in Msgs : msgJob[m] \in JobRows /\ AgentStatus(JobAgent(msgJob[m])) = "active"
                          /\ FetchAgent(JobAgent(msgJob[m]))}

\* the jobs-row write a dispatcher result asks for
Recorded(m) == SelectSeq(effects[m], LAMBDA o : o.op \in {"complete_job", "fail_job"})

\* the dispatcher was called for a message of job j and has not come back
InFlight(j) == \E n \in Msgs : msgJob[n] = j /\ dispatches[n] > 0 /\ executed[n] = "none"

\* C36: for a message whose job exists and whose agent is active, once the
\* dispatcher returned a result the one jobs-row write made for the message is
\* succeeded with the output exactly when the result has success=true, and
\* otherwise failed with the result's error, or with 'Unknown error' when the
\* result carries none; with no other dispatch of the job under way the row
\* shows such a write, and for a job named by one message it shows that one.
C36_FinalStatus ==
    /\ \A m \in Runnable :
          executed[m] \in {"ok", "fail", "fail_none"} =>
              /\ executed[m] = "ok" <=> Recorded(m) = <<[op |-> "complete_job", arg |-> "output"]>>
              /\ executed[m] = "fail" <=>
                    Recorded(m) = <<[op |-> "fail_job", arg |-> ResultError]>>
              /\ executed[m] = "fail_none" <=>
                    Recorded(m) = <<[op |-> "fail_job", arg |-> "Unknown error"]>>
              /\ ~InFlight(msgJob[m]) =>
                    \E n \in Runnable :
                        /\ msgJob[n] = msgJob[m]
                        /\ executed[n] # "none"
                        /\ jobs[msgJob[m]].status = "succeeded" <=> executed[n] = "ok"
                        /\ jobs[msgJob[m]].status = "failed" <=> executed[n] # "ok"
                        /\ executed[n] = "ok" => jobs[msgJob[m]].output = "output"
                        /\ executed[n] = "fail" => jobs[msgJob[m]].error = ResultError
                        /\ executed[n] = "fail_none" => jobs[msgJob[m]].error = "Unknown error"
              /\ (\A n \in Msgs \ {m} : msgJob[n] # msgJob[m]) =>
                    /\ jobs[msgJob[m]].status = (IF executed[m] = "ok" THEN "succeeded" ELSE "failed")
                    /\ executed[m] = "ok" => jobs[msgJob[m]].output = "output"
                    /\ executed[m] = "fail" => jobs[msgJob[m]].error = ResultError
                    /\ executed[m] = "fail_none" => jobs[msgJob[m]].error = "Unknown error"

\* C36 witness: a result without an error text failed the job with the
\* default text, after an earlier message of the same job had succeeded
C36_Witness ==
    \E m \in Runnable, n \in Runnable :
        /\ msgJob[m] = msgJob[n]
        /\ executed[m] = "ok"
        /\ executed[n] = "fail_none"
        /\ jobs[msgJob[n]].status = "failed"
        /\ jobs[msgJob[n]].error = "Unknown error"
        /\ jobs[msgJob[n]].output = "output"

(***************************************************************************)
(* Properties of the Runtime Dispatcher                                    *)
(***************************************************************************)
\* C13: execute never lets an exception out; for a manifest whose
\* runtime_type is none of the six supported types it returns success
\* false with a non-empty error without running any handler, and when a
\* handler raised it returns success false with the exception's text.
C13_ExecuteNeverRaises ==
    /\ dpc # "raised"
    /\ (RuntimeTypeOf(manifest) \notin RuntimeType /\ dpc # "idle") =>
          /\ dpc = "returned"
          /\ exec_result.success = FALSE
          /\ exec_result.error # ""
          /\ exec_result.error # "not returned"
    /\ (thrown # NoException) =>
          /\ dpc = "returned"
          /\ exec_result.success = FALSE
          /\ exec_result.error = thrown

\* C13 witness: a handler raised and execute returned the failure
C13_Witness ==
    /\ dpc = "returned"
    /\ RuntimeTypeOf(manifest) \in RuntimeType
    /\ thrown = "TypeError: object is not subscriptable"
    /\ exec_result.success = FALSE
    /\ exec_result.error = thrown

(***************************************************************************)
(* Properties of the Connection Manager                                    *)
(***************************************************************************)
\* C14: connect() returns only after _running was cleared; a connection
\* that ends or fails while _running is set is followed by a sleep that
\* starts at zero, every connection attempt but the first starts from a
\* sleep of exactly reconnect_delay ticks, whatever the number of attempts
\* before it, and a sleeping connect() that stays running attempts again.
C14_ConstantDelayForever ==
    /\ [](cpc = "returned" => ~running)
    /\ [][/\ (cpc' = "connecting" /\ cpc # "connecting") =>
               \/ cpc = "not_started"
               \/ (cpc = "sleeping" /\ slept = reconnect_delay /\ running)
          /\ (cpc \in {"connecting", "registering", "cancelling"} /\ ws' = None
                /\ cpc' # cpc /\ running) =>
               (cpc' = "sleeping" /\ slept' = 0)]_vars
    /\ (cpc = "sleeping" /\ running) ~> (cpc = "connecting" \/ ~running)

\* C14 witness: connect() attempts again after a sleep of reconnect_delay
C14_Witness ==
    /\ cpc = "connecting"
    /\ conn_id = 2
    /\ slept = reconnect_delay
    /\ running

\* C15: once disconnect() has been called, connect() eventually returns.
C15_DisconnectReturns == disconnected ~> (cpc = "returned")

\* C16: at most one heartbeat task is alive; none is alive before the
\* registration of a connection was sent, while the handle is None, while
\* connect() sleeps or attempts a connection, or after it returned; one is
\* alive while the receive loop runs; a task is only created by the step
\* that sent the registration.
C16_OneHeartbeat ==
    /\ [](/\ hbAlive <= 1
          /\ (ws = None) => (hbAlive = 0 /\ hb = "none")
          /\ (cpc \in {"not_started", "connecting", "registering", "sleeping", "returned"})
                => (hbAlive = 0 /\ hb = "none")
          /\ (cpc \in {"receiving", "handling"}) => (hbAlive = 1 /\ hb = "waiting"))
    /\ [][hbAlive' > hbAlive =>
            (cpc = "registering" /\ cpc' = "receiving" /\ ws' = ws /\ ws # None)]_vars

\* C16 witness: the second connection has its own heartbeat task, which has slept
C16_Witness ==
    /\ conn_id = 2
    /\ cpc = "receiving"
    /\ hbAlive = 1
    /\ hbTimer > 0

\* C17: send never raises; a send whose outcome differs from the one before
\* returned False if the handle was None or the channel closed, returned
\* True only on an open channel, and its step clears neither _running nor
\* the handle, leaves the channel as it was and does not end the
\* connection.
C17_SendNeverRaises ==
    /\ [](send_result # "raised")
    /\ [][send_result' # send_result =>
            /\ send_result' \in {"True", "False"}
            /\ (ws = None \/ chan # "open") => send_result' = "False"
            /\ running' = running
            /\ ws' = ws
            /\ chan' = chan
            /\ cpc' \in {cpc, "receiving"}]_vars

\* C17 witness: a send failed on the open channel and the receive loop goes on
C17_Witness ==
    /\ send_result = "False"
    /\ ws # None
    /\ chan = "open"
    /\ cpc = "receiving"
    /\ running

\* C18: the receive loop is left only when the channel is closed, never
\* because of a message; a step that drops a message (invalid JSON, no
\* object, unknown type, raising handler) leaves the handle, the channel
\* and the heartbeat task as they were with connect() back at the receive
\* loop.
C18_NoFatalMessage ==
    /\ [][(cpc \in {"receiving", "handling"} /\ cpc' \notin {"receiving", "handling"})
            => (cpc = "receiving" /\ chan = "closed")]_vars
    /\ [][dropped' > dropped =>
            /\ ws' = ws
            /\ ws # None
            /\ chan' = chan
            /\ hb' = hb
            /\ running' = running
            /\ cpc' = "receiving"]_vars

\* C18 witness: on one open channel a message was dropped and a later one handled
C18_Witness ==
    /\ cpc = "receiving"
    /\ chan = "open"
    /\ dropped >= 1
    /\ handledHere = 2
    /\ lastMsg = "handler_ok"

(***************************************************************************)
(* Properties of the Job Queue Consumer under store failures               *)
(***************************************************************************)
\* C21: once the job's status is succeeded or failed, no later step of the
\* worker changes it.
C21_TerminalIsFinal ==
    [][job_row.status \in {"succeeded", "failed"} =>
          job_row'.status = job_row.status]_vars

\* C22: once a store, audit-chain or stream call of a message has failed, the
\* job row and its events stay as the last successful write left them for
\* the rest of that message's processing, and _process_message ends by raising.
C22_FailurePropagates ==
    /\ [](ppc = "done" /\ failedAt # "none" => raised_out)
    /\ [][(failedAt # "none" /\ attempt' = attempt) =>
            (job_row' = job_row /\ row_events' = row_events)]_vars

(***************************************************************************)
(* Properties of the Agent Daemon's execute_task handler                   *)
(***************************************************************************)
\* the task of the handled message failed: the task id or the plan was
\* missing, the plan was rejected, the run raised, or the plan halted
TaskFailed ==
    \/ task_outcome \in {"skipped", "crashed", "invalid", "raised"}
    \/ task_outcome = "returned" /\ ~task_success

\* C23: when the handling of an execute_task message has ended, exactly one
\* task_complete was handed to connection.send for it, and it carries
\* success = false whenever the task failed.
C23_OneTaskComplete ==
    [](hpc = "returned" =>
          /\ Len(task_sent) = 1
          /\ TaskFailed => ~task_sent[1].success)

\* the text t without its first k characters
RECURSIVE SkipChars(_, _)
SkipChars(t, k) ==
    IF k = 0 \/ t = <<>> THEN t
    ELSE IF t[1].n > k THEN <<[ch |-> t[1].ch, n |-> t[1].n - k]>> \o Tail(t)
    ELSE SkipChars(Tail(t), k - t[1].n)

\* s is what remains of t when only its last `limit` characters are kept
IsLastOf(s, t, limit) ==
    /\ TextLen(s) = Min(TextLen(t), limit)
    /\ s = SkipChars(t, TextLen(t) - TextLen(s))
    /\ TextLen(t) <= limit => s = t

\* the stderr values of the results that are not empty, in order
NonEmptyStderr ==
    LET withErr == SelectSeq(task_results, LAMBDA res : res.stderr # <<>>)
    IN  [k \in 1..Len(withErr) |-> withErr[k].stderr]

\* C28: the task_complete sent after a plan ran carries as output the last
\* 10,000 characters of the newline-joined stdout of all results and as error
\* the last 5,000 characters of the newline-joined non-empty stderr values,
\* null when there are none; texts within the limit are sent whole.
C28_TruncatedTexts ==
    (hpc = "returned" /\ task_outcome = "returned") =>
        LET msg == task_sent[Len(task_sent)]
            stdouts == [k \in 1..Len(task_results) |-> task_results[k].stdout]
        IN  /\ msg.output.has
            /\ IsLastOf(msg.output.text, Join(NL, stdouts), OutputLimit)
            /\ TextLen(msg.output.text) <= OutputLimit
            /\ IF NonEmptyStderr = <<>>
               THEN ~msg.error.has
               ELSE /\ msg.error.has
                    /\ IsLastOf(msg.error.text, Join(NL, NonEmptyStderr), ErrorLimit)
                    /\ TextLen(msg.error.text) <= ErrorLimit

\* a plan of two commands ran, both texts went over their limit and were cut
\* in the middle of the first command's text
C28_Witness ==
    /\ hpc = "returned" /\ task_outcome = "returned"
    /\ Len(task_results) = 2
    /\ TextLen(task_results[1].stdout) = OutputLimit - 1
    /\ TextLen(task_results[2].stdout) = OutputLimit - 1
    /\ TextLen(task_results[1].stderr) = ErrorLimit - 1
    /\ TextLen(task_results[2].stderr) = 1
    /\ TextLen(task_sent[1].output.text) = OutputLimit
    /\ TextLen(task_sent[1].error.text) = ErrorLimit

(***************************************************************************)
(* Properties of the Command Executor's workspaces                         *)
(***************************************************************************)
\* the names that have a workspace
NamesWithWorkspace == {n \in WorkspaceNames : workspaces[n] # NoWorkspace}

\* C25: get_or_create_workspace is idempotent by name: every name asked for
\* has its one workspace and no Workspace object was made beyond one per
\* name; a call naming an existing workspace returns that workspace, makes no
\* object and calls no initialiser; and an existing workspace keeps its kind,
\* path and identity whatever kind a later call names.
C25_IdempotentByName ==
    /\ [](/\ ws_made = Cardinality(NamesWithWorkspace)
          /\ ws_asked.name # "" =>
                /\ ws_asked.name \in NamesWithWorkspace
                /\ ws_returned = workspaces[ws_asked.name]
                /\ ws_returned.name = ws_asked.name
                /\ ws_returned.path = WorkspaceRoot \o << <<ws_asked.name>> >>)
    /\ [][/\ \A n \in NamesWithWorkspace : workspaces'[n] = workspaces[n]
          /\ \A n \in NamesWithWorkspace :
                ws_asked'.name = n =>
                    /\ ws_returned' = workspaces[n]
                    /\ ws_made' = ws_made
                    /\ ws_init_calls' = ws_init_calls]_workspacesVars

\* a call named an existing workspace with another kind and got the existing
\* workspace back
C25_Witness ==
    /\ ws_asked.name \in NamesWithWorkspace
    /\ ws_asked.type # ws_returned.type
    /\ ws_returned = workspaces[ws_asked.name]
    /\ ws_made = 2

\* the dir of a command has a component ".."
HasDotDot(chars) == \E k \in 1..Len(Components(chars)) : Components(chars)[k] = <<".", ".">>

IsPrefix(p, q) == Len(p) <= Len(q) /\ SubSeq(q, 1, Len(p)) = p

\* C27: the subprocess of every command runs in the resolved directory: under
\* the home directory for a dir starting with "~", the dir itself when it is
\* absolute, under the workspace path otherwise, for every workspace kind.
C27_RunsInResolvedDir ==
    ws_spawn # NoSubprocess =>
        LET chars == ws_spawn.dir
            resolved ==
                IF StartsWith(chars, "~") THEN ws_spawn.work_dir
                ELSE IF StartsWith(chars, "/") THEN Resolve(Components(chars))
                ELSE Resolve(workspaces[ws_spawn.workspace].path \o Components(chars))
        IN  /\ ws_spawn.work_dir = resolved
            /\ (StartsWith(chars, "~") /\ ~HasDotDot(chars)) => IsPrefix(HomeDir, resolved)
            /\ ws_spawn.cwd = resolved

(***************************************************************************)
(* Properties of worker startup                                            *)
(***************************************************************************)
\* C26: a worker whose start() got past _ensure_consumer_group finds the
\* stream with exactly one group of the configured name, whether the group
\* existed before or another worker created it meanwhile; a BUSYGROUP reply
\* never stops a worker; every other error of the call leaves start() as the
\* exception it was.
C26_EnsuresGroup ==
    /\ group_count[ConsumerGroup] <= 1
    /\ \A sw \in Starters :
        /\ spc[sw] = "looping" =>
              /\ key_kind = "stream"
              /\ group_count[ConsumerGroup] = 1
        /\ spc[sw] \in {"looping", "raised"} =>
              /\ spc[sw] = "looping" <=> xreply[sw] \in {NoError, BusyGroup}
              /\ start_error[sw] = IF spc[sw] = "raised" THEN xreply[sw] ELSE NoError

\* two workers started together on a key that did not exist: one created the
\* group, the other was told it exists, and both reached their loop
C26_Witness ==
    \E a, b \in Starters :
        /\ xreply[a] = NoError /\ spc[a] = "looping"
        /\ xreply[b] = BusyGroup /\ spc[b] = "looping"
        /\ group_count[ConsumerGroup] = 1

(***************************************************************************)
(* Properties of the Policy Steward                                        *)
(***************************************************************************)
\* C29: for every change document review_change returns requires_signoff =
\* True and change_summary equal to the document's summary value, or
\* 'No summary provided' when the document has no summary.
C29_ReviewChange ==
    "review_change" \in steward_calls =>
        /\ review_out.requires_signoff = "True"
        /\ review_out.change_summary =
              IF change_doc.summary = Absent THEN "'No summary provided'"
              ELSE change_doc.summary

\* a document whose summary is the empty string was reviewed and the empty
\* string came back, not the default
C29_Witness ==
    /\ "review_change" \in steward_calls
    /\ change_doc.summary = "''"
    /\ review_out.change_summary = "''"

\* the types of the risks returned
RiskTypes == {risks_out[k].type : k \in 1..Len(risks_out)}

\* C30: flag_risks returns a risk of type 'data' exactly when
\* data_classification is 'sensitive', a risk of type 'contract' exactly when
\* the document's contractual value is truthy, and no other risk.
C30_FlagRisks ==
    "flag_risks" \in steward_calls =>
        /\ "data" \in RiskTypes <=> change_doc.data_classification = "'sensitive'"
        /\ "contract" \in RiskTypes <=> change_doc.contractual \in {"True", "1", "'yes'"}
        /\ RiskTypes \subseteq {"data", "contract"}
        /\ Len(risks_out) = Cardinality(RiskTypes)

\* a sensitive document with a truthy contractual value that is not True got
\* both risks
C30_Witness ==
    /\ "flag_risks" \in steward_calls
    /\ change_doc.data_classification = "'sensitive'"
    /\ change_doc.contractual = "'yes'"
    /\ Len(risks_out) = 2

(***************************************************************************)
(* Properties of the Agent Daemon on its channel                           *)
(***************************************************************************)
\* C31: at most one execute_plan invocation is active at any time; one is
\* active exactly while the task handler is inside execute_plan, and connect()
\* stays in its receive loop, dispatching nothing, until the handler is back.
C31_OnePlanAtATime ==
    /\ active_plans <= 1
    /\ active_plans = 1 <=> task_pc = "running"
    /\ task_pc # "idle" => (loop_pc = "receiving" /\ last_in = "execute_task")

\* a plan is at its second command, alone, after the channel dropped
C31_Witness ==
    /\ active_plans = 1
    /\ task_pc = "running"
    /\ cmd_idx = 1
    /\ wire = "closed"

\* C32: after the channel dropped, connect() eventually clears the handle and
\* starts a new connection attempt, also when a plan was executing.
C32_ReconnectsAfterDrop == (wire = "closed") ~> (~sock /\ loop_pc = "connecting")

\* the positions of the log whose entry has the given type
LogPositions(type) == {p \in 1..Len(task_log) : task_log[p].type = type}

\* C33: the messages sent for a task are ordered: task_output and
\* command_result entries by command index, the outputs of a command before
\* its one result, task_complete once and last; and every line the running
\* command has written so far has already been sent as its own task_output.
C33_OrderedRelay ==
    /\ \A p, q \in 1..Len(task_log) :
          (p < q /\ task_log[q].type # "task_complete") =>
              /\ task_log[p].type # "task_complete"
              /\ task_log[p].index <= task_log[q].index
              /\ task_log[p].type = "command_result" =>
                    task_log[p].index < task_log[q].index
    /\ Cardinality(LogPositions("task_complete")) <= 1
    /\ task_pc = "completing" => LogPositions("task_complete") = {Len(task_log)}
    /\ task_pc = "running" => LogPositions("task_complete") = {}
    /\ (task_pc = "running" /\ cmd_idx < plan_size) =>
          /\ Cardinality({p \in LogPositions("task_output") :
                             task_log[p].index = cmd_idx}) = cmd_lines
          /\ \A p \in LogPositions("command_result") : task_log[p].index < cmd_idx

\* a plan of two commands, each with one line of output, ran to its end
C33_Witness ==
    /\ Len(task_log) = 5
    /\ task_log[1] = [type |-> "task_output", index |-> 0]
    /\ task_log[2] = [type |-> "command_result", index |-> 0]
    /\ task_log[3] = [type |-> "task_output", index |-> 1]
    /\ task_log[4] = [type |-> "command_result", index |-> 1]
    /\ task_log[5].type = "task_complete"

\* C34: on every channel the first message the agent sends is register; no
\* heartbeat, pong, task_output, command_result or task_complete goes first,
\* and the receive loop and the heartbeat task start after it.
C34_RegisterFirst ==
    /\ first_out \in {"none", "register"}
    /\ (loop_pc \in {"receiving", "cancelling"} \/ beat # "none" \/ task_pc # "idle") =>
          first_out = "register"

\* on one channel the registration was followed by a pong and a heartbeat
C34_Witness ==
    /\ first_out = "register"
    /\ last_in = "ping"
    /\ pongs = <<"pong">>
    /\ beat_report # NoBeat
    /\ wire = "open"

\* C35: the message dispatched last, when it is a ping, was answered with
\* exactly one pong by _handle_message itself, before any other message is
\* dispatched; registered, error and unknown types were answered with nothing.
C35_PongPerPing ==
    /\ last_in = "ping" => pongs = <<"pong">>
    /\ last_in \in {"registered", "error", "unknown", "execute_task_invalid"} =>
          pongs = <<>>
    /\ (last_in # "none" /\ loop_pc = "receiving") => sock

\* a ping was answered after a task had been completed on the channel
C35_Witness ==
    /\ last_in = "ping"
    /\ Len(pongs) = 1
    /\ LogPositions("task_complete") # {}
    /\ task_pc = "idle"

\* C37: while a plan is executing the heartbeat task is alive and the
\* current task is the executing one; with no task handler active the current
\* task is null; and each heartbeat carried the task id exactly when it was
\* sent between the handler's set_current_task and its finally clause.
C37_HeartbeatReportsTask ==
    /\ task_pc = "running" => (beat = "waiting" /\ conn_task = TheTask)
    /\ task_pc = "completing" => conn_task = TheTask
    /\ task_pc = "idle" => conn_task = NoTaskId
    /\ beat_report # NoBeat =>
          (beat_report.task = TheTask <=> beat_report.at \in {"running", "completing"})
    /\ beat_report.task \in {TheTask, NoTaskId}

\* a heartbeat sent during the plan carried the task id, and the handler has
\* ended since
C37_Witness ==
    /\ beat_report = [task |-> TheTask, at |-> "running"]
    /\ task_pc = "idle"
    /\ conn_task = NoTaskId

(***************************************************************************)
(* Properties of the worker loop                                           *)
(***************************************************************************)
\* C38: every exception that escaped a poll iteration was logged by start()
\* and followed by a pause, never by the end of start(); start() has returned
\* only after stop() was called, and then no iteration began after the one
\* stop() was called in; and an iteration whose reclaim scan failed still
\* went on to read new messages.
C38_LoopSurvives ==
    /\ errors_logged = (IF w_pc = "raised" THEN escaped - 1 ELSE escaped)
    /\ w_pc = "returned" => (stop_called /\ ~w_running)
    /\ stop_called => (~w_running /\ iterations = stopped_at)
    /\ (~stop_called /\ w_pc # "returned") => w_running
    /\ (scan_failed /\ w_pc # "reading") => read_done

\* an iteration's reclaim scan failed and its read returned messages; an
\* earlier iteration's exception was logged; stop() came during the
\* processing and start() returned after that iteration
C38_Witness ==
    /\ w_pc = "returned"
    /\ scan_failed
    /\ read_done
    /\ errors_logged = 1
    /\ iterations = 2
    /\ stopped_at = 2

====
